---- MODULE Spec2Model ----
(***************************************************************************)
(* OmniDupe: the catalog (src/src/database.py), the detector               *)
(* (src/src/duplicate_detector.py), the file actuator                      *)
(* (src/src/file_manager.py) and the three modes of main.py, as a state    *)
(* machine.                                                                *)
(*                                                                         *)
(* Paths are the integers 1..NumPaths in the lexicographic order of the    *)
(* path strings (ORDER BY file_path is ascending order of these numbers).  *)
(* A perceptual hash is the set of its one-bits among the bit positions    *)
(* 1..HashBits, so that the Hamming distance is the size of the symmetric  *)
(* difference.                                                             *)
(***************************************************************************)
EXTENDS Integers, Sequences, FiniteSets, TLC

VARIABLES
    db,      \* the catalog: images, duplicate_groups, group_images, sequences
    fs,      \* the image tree: path -> the file at that path, or NoFile
    dest,    \* the move destination directory: NoDir, or name -> tag
    run,     \* the remove run in progress (remove_mode / FileManager)
    det,     \* what the last detect run returned (find_duplicates)
    grp,     \* a DuplicateGroup object (select_keeper's self)
    calls,   \* the last calls made on the catalog interface, latest last
    scan     \* the scan in progress (ImageScanner.scan_directory)

vars == <<db, fs, dest, run, det, grp, calls, scan>>

---------------------------------------------------------------------------
(* Bounds of the model *)

NumPaths == 3        \* paths of the image tree
MaxDetect == 2       \* detect runs on one catalog
MaxGroupLen == 3     \* members of a DuplicateGroup given to select_keeper
MaxId == 3           \* rows inserted through the catalog interface
MaxGroups == 2       \* groups created through the catalog interface
NumFindPaths == 6    \* paths of the trees given to find_duplicates

(* Program constants *)
HashBits == 64       \* width of a perceptual hash
DefaultThreshold == 5

Paths == 1 .. NumPaths

(* The basename of a path: paths 1, 2, 3, 4 are /d1/ab.jpg, /d1/b.jpg,     *)
(* /d2/ab.jpg, /d2/b.jpg: basename 2 is ab.jpg and basename 1 is b.jpg,    *)
(* repeated in every directory.                                            *)
BaseName(p) == (p % 2) + 1

(* len(Path(file_path).name) *)
NameLen(p) == 4 + BaseName(p)

(* SQL NULL / Python None in a column of numbers *)
NULL == 0 - 1

(* The empty string of a text column (file_hash = '' when hashing failed) *)
EMPTY == 0

(* SQL NULL in removal_reason *)
NoReason == "NULL"

(* A hash column: NULL, the empty string, a string hex_to_hash rejects, or *)
(* the hex string of a 64-bit hash, given by its one-bits.                 *)
HNull == [kind |-> "null", bits |-> {}]
HEmpty == [kind |-> "empty", bits |-> {}]
HBad == [kind |-> "bad", bits |-> {}]
Hex(bits) == [kind |-> "hex", bits |-> bits]

---------------------------------------------------------------------------
(* Sequences *)

RECURSIVE SeqToSet(_)
SeqToSet(s) == IF s = <<>> THEN {} ELSE {Head(s)} \cup SeqToSet(Tail(s))

RECURSIVE SelectSeqBy(_, _)
(* [x for x in s if x.file_path not in processed] *)
SelectSeqBy(s, processed) ==
    IF s = <<>> THEN <<>>
    ELSE IF Head(s).file_path \in processed
         THEN SelectSeqBy(Tail(s), processed)
         ELSE <<Head(s)>> \o SelectSeqBy(Tail(s), processed)

RECURSIVE OrderByPath(_)
(* ORDER BY file_path of a set of rows with distinct paths *)
OrderByPath(rows) ==
    IF rows = {} THEN <<>>
    ELSE LET r == CHOOSE x \in rows : \A y \in rows : x.file_path <= y.file_path
         IN  <<r>> \o OrderByPath(rows \ {r})

---------------------------------------------------------------------------
(* The catalog: src/src/database.py *)

(* The tables after _create_tables on a new file *)
EmptyDb ==
    [images |-> {}, imageSeq |-> 0,
     duplicate_groups |-> {}, groupSeq |-> 0,
     group_images |-> {}]

(* The row INSERT OR REPLACE writes: the 17 columns of the statement, and  *)
(* the column defaults for the three it does not name.                     *)
NewRow(id, p, m) ==
    [id |-> id, file_path |-> p,
     file_size |-> m.file_size, file_hash |-> m.file_hash,
     width |-> m.width, height |-> m.height,
     timestamp |-> m.timestamp,
     perceptual_hash |-> m.perceptual_hash,
     average_hash |-> m.average_hash,
     difference_hash |-> m.difference_hash,
     marked_for_removal |-> FALSE, is_protected |-> FALSE,
     removal_reason |-> NoReason]

(* A variant of store_image_metadata that inserts beside the row of the    *)
(* same path                                                               *)
StoreImageMetadata_Insert(d, p, m) ==
    [d EXCEPT !.images = @ \cup {NewRow(d.imageSeq + 1, p, m)},
              !.imageSeq = @ + 1]

(* INSERT OR REPLACE ... keyed on the UNIQUE file_path: the row of the     *)
(* same path is deleted, the new row gets the next AUTOINCREMENT id.       *)
StoreImageMetadata(d, p, m) ==
    [d EXCEPT !.images = {r \in @ : r.file_path # p}
                            \cup {NewRow(d.imageSeq + 1, p, m)},
              !.imageSeq = @ + 1]

(* A variant of mark_image_for_removal without "AND is_protected = FALSE" *)
MarkImageForRemoval_Unguarded(d, id, reason) ==
    [d EXCEPT !.images =
        {IF r.id = id
         THEN [r EXCEPT !.marked_for_removal = TRUE, !.removal_reason = reason]
         ELSE r : r \in @}]

(* UPDATE ... WHERE id = ? AND is_protected = FALSE *)
MarkImageForRemoval(d, id, reason) ==
    [d EXCEPT !.images =
        {IF r.id = id /\ ~r.is_protected
         THEN [r EXCEPT !.marked_for_removal = TRUE, !.removal_reason = reason]
         ELSE r : r \in @}]

(* A variant of mark_image_protected that leaves removal_reason *)
MarkImageProtected_KeepReason(d, p) ==
    [d EXCEPT !.images =
        {IF r.file_path = p
         THEN [r EXCEPT !.is_protected = TRUE, !.marked_for_removal = FALSE]
         ELSE r : r \in @}]

(* UPDATE ... SET is_protected, marked_for_removal, removal_reason         *)
(* WHERE file_path = ? *)
MarkImageProtected(d, p) ==
    [d EXCEPT !.images =
        {IF r.file_path = p
         THEN [r EXCEPT !.is_protected = TRUE, !.marked_for_removal = FALSE,
                        !.removal_reason = NoReason]
         ELSE r : r \in @}]

(* cursor.rowcount # 0: the value mark_image_protected returns *)
MarkImageProtectedResult(d, p) == \E r \in d.images : r.file_path = p

(* A variant of unmark_image_for_removal that leaves removal_reason *)
UnmarkImageForRemoval_KeepReason(d, id) ==
    [d EXCEPT !.images =
        {IF r.id = id THEN [r EXCEPT !.marked_for_removal = FALSE] ELSE r :
            r \in @}]

(* UPDATE ... WHERE id = ? *)
UnmarkImageForRemoval(d, id) ==
    [d EXCEPT !.images =
        {IF r.id = id
         THEN [r EXCEPT !.marked_for_removal = FALSE, !.removal_reason = NoReason]
         ELSE r : r \in @}]

(* A variant of get_images_for_removal without the WHERE clause *)
GetImagesForRemoval_All(d) ==
    OrderByPath({[id |-> r.id, file_path |-> r.file_path,
                  file_size |-> r.file_size,
                  removal_reason |-> r.removal_reason] : r \in d.images})

(* SELECT ... WHERE marked_for_removal = TRUE AND is_protected = FALSE     *)
(* ORDER BY file_path *)
GetImagesForRemoval(d) ==
    OrderByPath({[id |-> r.id, file_path |-> r.file_path,
                  file_size |-> r.file_size,
                  removal_reason |-> r.removal_reason] :
                    r \in {x \in d.images :
                              x.marked_for_removal /\ ~x.is_protected}})

(* SELECT * FROM images ORDER BY file_path *)
GetAllImages(d) == OrderByPath(d.images)

(* SELECT * ... WHERE perceptual_hash IS NOT NULL AND perceptual_hash # '' *)
(* ORDER BY file_path *)
GetImagesWithPerceptualHashes(d) ==
    OrderByPath({r \in d.images :
                    r.perceptual_hash.kind \notin {"null", "empty"}})

RECURSIVE GroupByKey(_, _, _)
(* The dict the two grouping queries build from rows read in              *)
(* ORDER BY key, file_path: one entry per key, in ascending key order,     *)
(* each with its rows in path order; keys is the set of keys left.         *)
GroupByKey(rows, keys, column) ==
    IF keys = {} THEN <<>>
    ELSE LET k == CHOOSE x \in keys : \A y \in keys : x <= y
         IN  <<OrderByPath({r \in rows : r[column] = k})>>
                 \o GroupByKey(rows, keys \ {k}, column)

(* A variant of the filter that returns the entries in reverse order *)
MoreThanOne_Reversed(lists) ==
    LET kept == SelectSeq(lists, LAMBDA l : Len(l) > 1)
    IN  [i \in 1 .. Len(kept) |-> kept[Len(kept) + 1 - i]]

(* {k: imgs for k, imgs in d.items() if len(imgs) > 1} *)
MoreThanOne(lists) == SelectSeq(lists, LAMBDA l : Len(l) > 1)

(* WHERE timestamp IS NOT NULL ORDER BY timestamp, file_path *)
GetImagesByTimestamp(d) ==
    LET rows == {r \in d.images : r.timestamp # NULL}
    IN  MoreThanOne(GroupByKey(rows, {r.timestamp : r \in rows}, "timestamp"))

(* WHERE file_hash # '' ORDER BY file_hash, file_path *)
GetImagesByHash(d) ==
    LET rows == {r \in d.images : r.file_hash # EMPTY}
    IN  MoreThanOne(GroupByKey(rows, {r.file_hash : r \in rows}, "file_hash"))

(* INSERT INTO duplicate_groups (group_type, similarity_score) *)
CreateDuplicateGroup(d, type, score) ==
    [d EXCEPT !.duplicate_groups =
                  @ \cup {[id |-> d.groupSeq + 1, group_type |-> type,
                           similarity_score |-> score]},
              !.groupSeq = @ + 1]

(* INSERT OR REPLACE INTO group_images, keyed on (group_id, image_id) *)
AddImageToGroup(d, gid, iid, keeper) ==
    [d EXCEPT !.group_images =
        {x \in @ : ~(x.group_id = gid /\ x.image_id = iid)}
            \cup {[group_id |-> gid, image_id |-> iid, is_keeper |-> keeper]}]

(* The rows of get_duplicate_groups for one group: group_images JOIN       *)
(* images ON image_id = id *)
GroupMembers(d, gid) ==
    {x \in d.group_images :
        x.group_id = gid /\ \E r \in d.images : r.id = x.image_id}

---------------------------------------------------------------------------
(* The detector: src/src/duplicate_detector.py *)

(* DuplicateGroup.__init__ and add_image: type, score, the list of images *)
DuplicateGroup(type, score, images) ==
    [type |-> type, similarity_score |-> score, images |-> images]

(* self.keeper = None, and select_keeper of an empty group *)
None == [none |-> TRUE]

(* A variant of the sort key that does not look at the basename *)
KeeperKey_NoNameLen(img) ==
    <<0 - (img.width * img.height), 0 - img.file_size, 0, img.file_path>>

(* The sort key of select_keeper *)
KeeperKey(img) ==
    <<0 - (img.width * img.height), 0 - img.file_size,
      NameLen(img.file_path), img.file_path>>

(* Python's order of two tuples of four numbers: a < b *)
TupleLess(a, b) ==
    \E i \in 1 .. 4 : a[i] < b[i] /\ \A j \in 1 .. (i - 1) : a[j] = b[j]

RECURSIVE InsertByKey(_, _)
(* img placed after every element whose key is not greater: a stable sort *)
InsertByKey(sorted, img) ==
    IF sorted = <<>> THEN <<img>>
    ELSE IF TupleLess(KeeperKey(img), KeeperKey(Head(sorted)))
         THEN <<img>> \o sorted
         ELSE <<Head(sorted)>> \o InsertByKey(Tail(sorted), img)

RECURSIVE SortedImages(_)
(* sorted(self.images, key = ...) *)
SortedImages(images) ==
    IF images = <<>> THEN <<>>
    ELSE InsertByKey(SortedImages(SubSeq(images, 1, Len(images) - 1)),
                     images[Len(images)])

SelectKeeper(images) ==
    IF images = <<>> THEN None
    ELSE IF Len(images) = 1 THEN images[1]
    ELSE SortedImages(images)[1]

(* [img for img in self.images if img != self.keeper] *)
GetDuplicates(g) ==
    LET keeper == SelectKeeper(g.images)
    IN  SelectSeq(g.images, LAMBDA img : img # keeper)

(* to_dict: what detect_mode hands to the catalog and the reporter *)
ToDict(g) ==
    [type |-> g.type, similarity_score |-> g.similarity_score,
     keeper |-> SelectKeeper(g.images), duplicates |-> GetDuplicates(g)]

RECURSIVE FindKeyedDuplicates(_, _, _)
(* The loop of _find_timestamp_duplicates and of _find_hash_duplicates     *)
(* over the dict of a grouping query; st is [groups, processed].           *)
FindKeyedDuplicates(lists, st, type) ==
    IF lists = <<>> THEN st
    ELSE LET images == Head(lists)
             unprocessed == SelectSeqBy(images, st.processed)
         IN  IF Len(images) < 2 \/ Len(unprocessed) < 2
             THEN FindKeyedDuplicates(Tail(lists), st, type)
             ELSE FindKeyedDuplicates(Tail(lists),
                     [groups |-> Append(st.groups,
                                        DuplicateGroup(type, NULL, unprocessed)),
                      processed |-> st.processed
                          \cup {img.file_path : img \in SeqToSet(unprocessed)}],
                     type)

FindTimestampDuplicates(d, processed) ==
    FindKeyedDuplicates(GetImagesByTimestamp(d),
                        [groups |-> <<>>, processed |-> processed], "timestamp")

(* A variant of _find_hash_duplicates that does not filter out the images *)
(* already processed                                                       *)
FindHashDuplicates_NoFilter(d, processed) ==
    FindKeyedDuplicates(GetImagesByHash(d),
                        [groups |-> <<>>, processed |-> {}], "hash")

FindHashDuplicates(d, processed) ==
    FindKeyedDuplicates(GetImagesByHash(d),
                        [groups |-> <<>>, processed |-> processed], "hash")

(* hash1 - hash2 of two imagehash objects: the Hamming distance *)
Hamming(h1, h2) == Cardinality((h1 \ h2) \cup (h2 \ h1))

(* The first of perceptual_hash, average_hash, difference_hash that is     *)
(* non-empty and that hex_to_hash accepts; None when there is none.        *)
ParseHash(image) ==
    IF image.perceptual_hash.kind = "hex" THEN image.perceptual_hash
    ELSE IF image.average_hash.kind = "hex" THEN image.average_hash
    ELSE IF image.difference_hash.kind = "hex" THEN image.difference_hash
    ELSE None

RECURSIVE ImageHashes(_)
(* image_hashes: the (image, hash_obj) pairs of the images with a hash *)
ImageHashes(images) ==
    IF images = <<>> THEN <<>>
    ELSE LET h == ParseHash(Head(images))
         IN  (IF h = None THEN <<>>
              ELSE <<[image |-> Head(images), hash |-> h.bits]>>)
                 \o ImageHashes(Tail(images))

(* A variant of is_similar that takes every element of the pool *)
IsSimilar_Always(current_group, other, T) == TRUE

(* is_similar of the inner loop: for each member of current_group the      *)
(* distance computed is that of current_hash, the hash of the group's      *)
(* first element, to other_hash.                                           *)
IsSimilar(current_group, other, T) ==
    LET current_hash == current_group[1].hash
    IN  \E k \in 1 .. Len(current_group) :
            Hamming(current_hash, other.hash) <= T

(* A variant of the inner loop that leaves the elements it takes in the    *)
(* pool                                                                    *)
GrowGroup_KeepPool(current_group, remaining, i, T) ==
    [group |-> current_group
                   \o SelectSeq(remaining, LAMBDA o : IsSimilar(current_group, o, T)),
     remaining |-> remaining]

RECURSIVE GrowGroup(_, _, _, _)
(* The loop "while i < len(remaining)"; returns [group, remaining] *)
GrowGroup(current_group, remaining, i, T) ==
    IF i > Len(remaining)
    THEN [group |-> current_group, remaining |-> remaining]
    ELSE IF IsSimilar(current_group, remaining[i], T)
         THEN GrowGroup(Append(current_group, remaining[i]),
                        SubSeq(remaining, 1, i - 1)
                            \o SubSeq(remaining, i + 1, Len(remaining)),
                        i, T)
         ELSE GrowGroup(current_group, remaining, i + 1, T)

RECURSIVE ClusterSimilarImages(_, _)
(* _cluster_similar_images: the loop "while remaining" *)
ClusterSimilarImages(remaining, T) ==
    IF remaining = <<>> THEN <<>>
    ELSE LET g == GrowGroup(<<Head(remaining)>>, Tail(remaining), 1, T)
         IN  (IF Len(g.group) > 1 THEN <<g.group>> ELSE <<>>)
                 \o ClusterSimilarImages(g.remaining, T)

(* sum(similarities) and len(similarities) over the pairs i < j *)
SimilarityScore(similar) ==
    LET pairs == {ij \in (1 .. Len(similar)) \X (1 .. Len(similar)) :
                     ij[1] < ij[2]}
        RECURSIVE Sum(_)
        Sum(ps) == IF ps = {} THEN 0
                   ELSE LET x == CHOOSE y \in ps : TRUE
                        IN  Hamming(similar[x[1]].hash, similar[x[2]].hash)
                                + Sum(ps \ {x})
    IN  [sum |-> Sum(pairs), pairs |-> Cardinality(pairs)]

RECURSIVE PerceptualGroups(_)
(* One DuplicateGroup('perceptual', avg_similarity) per cluster *)
PerceptualGroups(clusters) ==
    IF clusters = <<>> THEN <<>>
    ELSE LET c == Head(clusters)
         IN  (IF Len(c) < 2 THEN <<>>
              ELSE <<DuplicateGroup("perceptual", SimilarityScore(c),
                                    [k \in 1 .. Len(c) |-> c[k].image])>>)
                 \o PerceptualGroups(Tail(clusters))

FindPerceptualDuplicates(d, processed, T) ==
    LET unprocessed ==
            SelectSeqBy(GetImagesWithPerceptualHashes(d), processed)
    IN  IF Len(unprocessed) < 2 THEN <<>>
        ELSE PerceptualGroups(ClusterSimilarImages(ImageHashes(unprocessed), T))

(* The three stages of find_duplicates, sharing processed_images *)
FindGroups(d, T) ==
    LET s1 == FindTimestampDuplicates(d, {})
        s2 == FindHashDuplicates(d, s1.processed)
    IN  s1.groups \o s2.groups \o FindPerceptualDuplicates(d, s2.processed, T)

(* The id _store_duplicate_groups finds for a path in get_all_images(),   *)
(* None when no row has the path.                                          *)
ImageIdByPath(d, path) ==
    LET all_images == GetAllImages(d)
        hits == {k \in 1 .. Len(all_images) : all_images[k].file_path = path}
    IN  IF hits = {} THEN NULL
        ELSE all_images[CHOOSE k \in hits : \A j \in hits : k <= j].id

RECURSIVE AddGroupImages(_, _, _, _, _)
(* The loop "for image in group.images" of one group. budget is the number *)
(* of catalog writes that still succeed; the write after them raises.      *)
(* Returns [db, budget, raised].                                           *)
AddGroupImages(d, gid, images, keeper, budget) ==
    IF images = <<>> THEN [db |-> d, budget |-> budget, raised |-> FALSE]
    ELSE LET image == Head(images)
             image_id == ImageIdByPath(d, image.file_path)
         IN  IF image_id = NULL \/ image_id = 0
             THEN AddGroupImages(d, gid, Tail(images), keeper, budget)
             ELSE IF budget = 0
             THEN [db |-> d, budget |-> 0, raised |-> TRUE]
             ELSE AddGroupImages(
                      AddImageToGroup(d, gid, image_id, image = keeper),
                      gid, Tail(images), keeper, budget - 1)

RECURSIVE StoreDuplicateGroups(_, _, _)
(* _store_duplicate_groups: the first catalog error ends the loop over     *)
(* the groups (except Exception: log), what was written stays written.     *)
StoreDuplicateGroups(d, groups, budget) ==
    IF groups = <<>> \/ budget = 0 THEN d
    ELSE LET g == Head(groups)
             d1 == CreateDuplicateGroup(d, g.type, g.similarity_score)
             r == AddGroupImages(d1, d1.groupSeq, g.images,
                                 SelectKeeper(g.images), budget - 1)
         IN  IF r.raised THEN r.db
             ELSE StoreDuplicateGroups(r.db, Tail(groups), r.budget)

RECURSIVE NumWrites(_)
(* The catalog writes _store_duplicate_groups makes for these groups *)
NumWrites(groups) ==
    IF groups = <<>> THEN 0
    ELSE 1 + Len(Head(groups).images) + NumWrites(Tail(groups))

(* f"{group_type}_duplicate" *)
ReasonOf(type) ==
    CASE type = "timestamp" -> "timestamp_duplicate"
      [] type = "hash" -> "hash_duplicate"
      [] type = "perceptual" -> "perceptual_duplicate"
      [] OTHER -> "unknown_duplicate"

RECURSIVE MarkDuplicates(_, _, _)
(* for duplicate in group.get('duplicates', []) *)
MarkDuplicates(d, duplicates, reason) ==
    IF duplicates = <<>> THEN d
    ELSE LET image_id == Head(duplicates).id
         IN  MarkDuplicates(
                 IF image_id # 0 THEN MarkImageForRemoval(d, image_id, reason)
                 ELSE d,
                 Tail(duplicates), reason)

RECURSIVE ProcessDuplicateGroupsForRemoval(_, _)
ProcessDuplicateGroupsForRemoval(d, group_dicts) ==
    IF group_dicts = <<>> THEN d
    ELSE ProcessDuplicateGroupsForRemoval(
             MarkDuplicates(d, Head(group_dicts).duplicates,
                            ReasonOf(Head(group_dicts).type)),
             Tail(group_dicts))

---------------------------------------------------------------------------
(* The image tree and the move destination *)

(* No file at a path *)
NoFile == [exists |-> FALSE]

(* A file and what extract_metadata reads from it *)
File(m) == [exists |-> TRUE, meta |-> m]

(* ImageMetadata: the fields the catalog and the detector read *)
Meta(size, hash, w, h, ts, ph) ==
    [file_size |-> size, file_hash |-> hash, width |-> w, height |-> h,
     timestamp |-> ts, perceptual_hash |-> ph,
     average_hash |-> HEmpty, difference_hash |-> HEmpty]

(* A name in the destination directory: file_path.name, the name with the *)
(* millisecond timestamp, the name with timestamp and counter, and the     *)
(* ".write_test" file of the permission probe.                             *)
PlainName(b) == [kind |-> "name", base |-> b, ts |-> 0, counter |-> 0]
StampedName(b, t) == [kind |-> "ts", base |-> b, ts |-> t, counter |-> 0]
CountedName(b, t, c) == [kind |-> "counter", base |-> b, ts |-> t, counter |-> c]
WriteTest == [kind |-> "write_test", base |-> 0, ts |-> 0, counter |-> 0]

(* A destination directory that does not exist, and one with these files; *)
(* a file is a name and what it holds: "old" for a file that was there     *)
(* before, or the path the file was moved from.                            *)
NoDir == [exists |-> FALSE, files |-> {}]
Dir(files) == [exists |-> TRUE, files |-> files]
Old(name) == [name |-> name, content |-> 0]
Names(d) == {f.name : f \in d.files}

---------------------------------------------------------------------------
(* The file actuator: src/src/file_manager.py *)

(* counter > 1000 *)
MaxAttempts == 1000

(* The loop "while dest_file.exists()", entered with dest_file and         *)
(* counter: each turn builds the name with the counter, increments the     *)
(* counter and raises when counter > MaxAttempts, so the names the loop    *)
(* condition tests are dest_file and those with counter .. MaxAttempts - 1 *)
(* and the result is the first of them that is free; None when the loop    *)
(* raises.                                                                 *)
UniqueName(names, b, t, dest_file, counter) ==
    IF dest_file \notin names THEN dest_file
    ELSE LET free == {c \in counter .. MaxAttempts - 1 :
                         CountedName(b, t, c) \notin names}
         IN  IF free = {} THEN None
             ELSE CountedName(b, t, CHOOSE c \in free : \A x \in free : c <= x)

(* dest_file of _move_file_to_directory for a file named b at time t *)
DestFile(names, b, t) ==
    IF PlainName(b) \notin names THEN PlainName(b)
    ELSE UniqueName(names, b, t, StampedName(b, t), 1)

(* _move_file_to_directory(file_path, dest_dir) at clock t. outcome is     *)
(* what the file system answers: "no_permission" (the source is not        *)
(* writable), "dest_denied" (the probe file cannot be created),            *)
(* "os_error" (shutil.move raises) or "ok". Returns [fs, dest, ret].       *)
MoveFileToDirectory(f, dst, p, self_dry_run, t, outcome) ==
    LET made == Dir(dst.files)
        probed == IF self_dry_run THEN made
                  ELSE Dir({x \in made.files : x.name # WriteTest})
        dest_file == DestFile(Names(probed), BaseName(p), t)
    IN  IF outcome = "no_permission"
        THEN [fs |-> f, dest |-> dst, ret |-> FALSE]
        ELSE IF outcome = "dest_denied" /\ ~self_dry_run
        THEN [fs |-> f, dest |-> made, ret |-> FALSE]
        ELSE IF dest_file = None
        THEN [fs |-> f, dest |-> probed, ret |-> FALSE]
        ELSE IF self_dry_run
        THEN [fs |-> f, dest |-> probed, ret |-> TRUE]
        ELSE IF outcome = "os_error"
        THEN [fs |-> f, dest |-> probed, ret |-> FALSE]
        ELSE [fs |-> [f EXCEPT ![p] = NoFile],
              dest |-> Dir({x \in probed.files : x.name # dest_file}
                              \cup {[name |-> dest_file, content |-> p]}),
              ret |-> TRUE]

(* A variant of the catalog update that never clears the mark *)
TryUnmark_Never(d, image_id, db_ok) == d

(* unmark_image_for_removal inside try/except: db_ok says whether the      *)
(* catalog accepts the update; a failure is logged.                        *)
TryUnmark(d, image_id, db_ok) ==
    IF db_ok THEN UnmarkImageForRemoval(d, image_id) ELSE d

(* A variant of _remove_file_and_update_db that does not look at dry_run   *)
RemoveFileAndUpdateDb_NoDryRun(f, dst, d, p, image_id, self_dry_run, move_to_dir, dry_run, t, outcome, db_ok) ==
    IF ~f[p].exists
    THEN [fs |-> f, dest |-> dst, db |-> TryUnmark(d, image_id, db_ok),
          ret |-> TRUE]
    ELSE [fs |-> [f EXCEPT ![p] = NoFile], dest |-> dst,
          db |-> TryUnmark(d, image_id, db_ok), ret |-> TRUE]

(* A variant of _remove_file_and_update_db that fails on a missing file   *)
RemoveFileAndUpdateDb_MissingFails(f, dst, d, p, image_id, self_dry_run, move_to_dir, dry_run, t, outcome, db_ok) ==
    IF ~f[p].exists
    THEN [fs |-> f, dest |-> dst, db |-> d, ret |-> FALSE]
    ELSE IF outcome \in {"not_file", "no_permission"}
    THEN [fs |-> f, dest |-> dst, db |-> d, ret |-> FALSE]
    ELSE IF dry_run
    THEN [fs |-> f, dest |-> dst, db |-> d, ret |-> TRUE]
    ELSE IF move_to_dir
    THEN LET m == MoveFileToDirectory(f, dst, p, self_dry_run, t, outcome)
         IN  [fs |-> m.fs, dest |-> m.dest,
              db |-> IF m.ret THEN TryUnmark(d, image_id, db_ok) ELSE d,
              ret |-> m.ret]
    ELSE IF outcome = "os_error"
    THEN [fs |-> f, dest |-> dst, db |-> d, ret |-> FALSE]
    ELSE [fs |-> [f EXCEPT ![p] = NoFile], dest |-> dst,
          db |-> TryUnmark(d, image_id, db_ok), ret |-> TRUE]

(* _remove_file_and_update_db(file_path, image_id, database, dry_run) of a *)
(* FileManager with self.dry_run and self.move_to_dir. outcome:            *)
(* "not_file", "no_permission", "dest_denied", "os_error" or "ok".         *)
(* Returns [fs, dest, db, ret].                                            *)
RemoveFileAndUpdateDb(f, dst, d, p, image_id, self_dry_run, move_to_dir, dry_run, t, outcome, db_ok) ==
    IF ~f[p].exists
    THEN [fs |-> f, dest |-> dst,
          db |-> IF ~dry_run THEN TryUnmark(d, image_id, db_ok) ELSE d,
          ret |-> TRUE]
    ELSE IF outcome \in {"not_file", "no_permission"}
    THEN [fs |-> f, dest |-> dst, db |-> d, ret |-> FALSE]
    ELSE IF dry_run
    THEN [fs |-> f, dest |-> dst, db |-> d, ret |-> TRUE]
    ELSE IF move_to_dir
    THEN LET m == MoveFileToDirectory(f, dst, p, self_dry_run, t, outcome)
         IN  [fs |-> m.fs, dest |-> m.dest,
              db |-> IF m.ret THEN TryUnmark(d, image_id, db_ok) ELSE d,
              ret |-> m.ret]
    ELSE IF outcome = "os_error"
    THEN [fs |-> f, dest |-> dst, db |-> d, ret |-> FALSE]
    ELSE [fs |-> [f EXCEPT ![p] = NoFile], dest |-> dst,
          db |-> TryUnmark(d, image_id, db_ok), ret |-> TRUE]

---------------------------------------------------------------------------
(* The three modes: src/main.py *)

(* What extract_metadata finds in the files of the modelled trees: a      *)
(* large image, a small one with an EXIF timestamp, and a small one whose  *)
(* perceptual hash is 3 bits from the second and 6 bits from the first.    *)
Metas ==
    {Meta(2, 1, 2, 1, NULL, Hex({})),
     Meta(1, 2, 1, 1, 1, Hex(1 .. 3)),
     Meta(1, 3, 1, 1, NULL, Hex(1 .. 6))}

(* The image trees *)
Trees == [Paths -> {File(m) : m \in Metas}]

(* time.time() * 1000 at a move *)
Clock == {1}

(* --similarity-threshold *)
Thresholds == {DefaultThreshold}

(* What the file system answers to the actuator for one item *)
Outcomes == {"ok", "not_file", "no_permission", "dest_denied", "os_error"}

(* --yes ("yes"), stdin not a TTY, and what the (y/N) prompt reads: the    *)
(* answers y and n, end of file, and Ctrl+C.                               *)
Confirms == {"yes", "not_tty", "y", "n", "eof", "interrupt"}

(* The same with the answer Y *)
ConfirmsAll == Confirms \cup {"Y"}

(* confirm.lower() *)
Lower(confirm) == IF confirm = "Y" THEN "y" ELSE confirm

(* No remove run: no FileManager; processed_count is what the last run     *)
(* returned.                                                               *)
Idle ==
    [active |-> FALSE, queue |-> <<>>, self_dry_run |-> FALSE,
     dry_run |-> FALSE, move_to_dir |-> FALSE, processed_count |-> 0]

(* No detect run yet *)
NoDetect == [ran |-> FALSE, groups |-> <<>>, threshold |-> DefaultThreshold]

(* No call made on the catalog interface *)
NoCalls == <<>>

(* No scan started: no ImageScanner *)
NoScan == [phase |-> "idle"]

(* No DuplicateGroup under test *)
NoGroup == [images |-> <<>>, keeper |-> None]

Init ==
    /\ db = EmptyDb
    /\ fs \in Trees
    /\ dest = NoDir
    /\ run = Idle
    /\ det = NoDetect
    /\ grp = NoGroup
    /\ calls = NoCalls
    /\ scan = NoScan

(* scan_directory: the files of the tree, sorted *)
ScanDirectory(f) ==
    OrderByPath({[file_path |-> p] : p \in {q \in DOMAIN f : f[q].exists}})

RECURSIVE StoreAll(_, _, _)
(* Step 2 of detect_mode: extract and store every scanned file *)
StoreAll(d, f, image_files) ==
    IF image_files = <<>> THEN d
    ELSE LET p == Head(image_files).file_path
         IN  StoreAll(StoreImageMetadata(d, p, f[p].meta), f, Tail(image_files))

(* A variant of detect_mode that deletes the files it has scanned *)
DetectMode_Deleting(T, fail) ==
    /\ ~run.active
    /\ LET image_files == ScanDirectory(fs)
           d1 == StoreAll(db, fs, image_files)
           duplicate_groups == FindGroups(d1, T)
           budget == IF fail = 0 THEN NumWrites(duplicate_groups) ELSE fail - 1
           d2 == StoreDuplicateGroups(d1, duplicate_groups, budget)
           group_dicts == [k \in 1 .. Len(duplicate_groups) |->
                              ToDict(duplicate_groups[k])]
       IN  /\ image_files # <<>>
           /\ fail <= NumWrites(duplicate_groups)
           /\ db' = IF duplicate_groups = <<>> THEN d2
                    ELSE ProcessDuplicateGroupsForRemoval(d2, group_dicts)
           /\ det' = [ran |-> TRUE, groups |-> duplicate_groups, threshold |-> T]
    /\ fs' = [p \in DOMAIN fs |-> NoFile]
    /\ UNCHANGED <<dest, run, grp, calls, scan>>

(* detect_mode with threshold T. fail = 0: the catalog raises no error;    *)
(* fail = n > 0: the n-th catalog write of _store_duplicate_groups raises. *)
DetectMode(T, fail) ==
    /\ ~run.active
    /\ LET image_files == ScanDirectory(fs)
           d1 == StoreAll(db, fs, image_files)
           duplicate_groups == FindGroups(d1, T)
           budget == IF fail = 0 THEN NumWrites(duplicate_groups) ELSE fail - 1
           d2 == StoreDuplicateGroups(d1, duplicate_groups, budget)
           group_dicts == [k \in 1 .. Len(duplicate_groups) |->
                              ToDict(duplicate_groups[k])]
       IN  /\ image_files # <<>>
           /\ fail <= NumWrites(duplicate_groups)
           /\ db' = IF duplicate_groups = <<>> THEN d2
                    ELSE ProcessDuplicateGroupsForRemoval(d2, group_dicts)
           /\ det' = [ran |-> TRUE, groups |-> duplicate_groups, threshold |-> T]
    /\ UNCHANGED <<fs, dest, run, grp, calls, scan>>

(* protect_mode; validate_args has checked that the file exists *)
ProtectMode(p) ==
    /\ ~run.active
    /\ fs[p].exists
    /\ db' = MarkImageProtected(db, p)
    /\ UNCHANGED <<fs, dest, run, det, grp, calls, scan>>

(* A variant of remove_mode that does not ask for confirmation *)
RemoveMode_NoConfirm(dry_run, move_to, confirm) ==
    /\ ~run.active
    /\ LET images_to_remove == GetImagesForRemoval(db)
           proceeds == /\ images_to_remove # <<>>
                       /\ dry_run \/ confirm \in Confirms
       IN  /\ dest' = IF move_to /\ ~dry_run THEN Dir(dest.files) ELSE dest
           /\ run' = IF proceeds
                     THEN [active |-> TRUE, queue |-> images_to_remove,
                           self_dry_run |-> dry_run, dry_run |-> dry_run,
                           move_to_dir |-> move_to, processed_count |-> 0]
                     ELSE Idle
    /\ UNCHANGED <<db, fs, det, grp, calls, scan>>

(* remove_mode up to the call of remove_files_from_database, which reads   *)
(* the removal set; the items are then processed one by one (RemoveItem).  *)
RemoveMode(dry_run, move_to, confirm) ==
    /\ ~run.active
    /\ LET images_to_remove == GetImagesForRemoval(db)
           proceeds == /\ images_to_remove # <<>>
                       /\ dry_run \/ confirm = "yes" \/ Lower(confirm) = "y"
       IN  /\ dest' = IF move_to /\ ~dry_run THEN Dir(dest.files) ELSE dest
           /\ run' = IF proceeds
                     THEN [active |-> TRUE, queue |-> images_to_remove,
                           self_dry_run |-> dry_run, dry_run |-> dry_run,
                           move_to_dir |-> move_to, processed_count |-> 0]
                     ELSE Idle
    /\ UNCHANGED <<db, fs, det, grp, calls, scan>>

(* One turn of the loop of remove_files_from_database; after the last one  *)
(* the run returns processed_count and the FileManager is gone.            *)
RemoveItem(t, outcome, db_ok) ==
    /\ run.active
    /\ LET image_info == Head(run.queue)
           r == RemoveFileAndUpdateDb(fs, dest, db, image_info.file_path,
                                      image_info.id, run.self_dry_run,
                                      run.move_to_dir, run.dry_run,
                                      t, outcome, db_ok)
           count == IF r.ret THEN run.processed_count + 1
                    ELSE run.processed_count
       IN  /\ fs' = r.fs
           /\ dest' = r.dest
           /\ db' = r.db
           /\ run' = IF Tail(run.queue) = <<>>
                     THEN [Idle EXCEPT !.processed_count = count]
                     ELSE [run EXCEPT !.queue = Tail(@),
                                      !.processed_count = count]
    /\ UNCHANGED <<det, grp, calls, scan>>

(* A file of the tree is deleted outside the tool *)
ExternalDelete(p) ==
    /\ ~run.active
    /\ fs[p].exists
    /\ fs' = [fs EXCEPT ![p] = NoFile]
    /\ UNCHANGED <<db, dest, run, det, grp, calls, scan>>

(* The modes run one after the other on one catalog, at most MaxDetect     *)
(* detect runs of a full tree.                                             *)
Next ==
    \/ \E T \in Thresholds :
           db.imageSeq <= (MaxDetect - 1) * NumPaths /\ DetectMode(T, 0)
    \/ \E p \in Paths : ProtectMode(p)
    \/ \E dry_run, move_to \in BOOLEAN, confirm \in Confirms :
           RemoveMode(dry_run, move_to, confirm)
    \/ \E t \in Clock, outcome \in Outcomes, db_ok \in BOOLEAN :
           RemoveItem(t, outcome, db_ok)
    \/ \E p \in Paths : ExternalDelete(p)

Spec == Init /\ [][Next]_vars

---------------------------------------------------------------------------
(* The catalog interface called directly, as the tests of                 *)
(* src/tests/test_database.py do: any sequence of its operations.          *)

(* metadata argument of store_image_metadata: copies of one image, which   *)
(* the detector groups by content hash                                     *)
MetasDb == {Meta(1, 1, 1, 1, NULL, Hex({}))}

(* reason arguments of mark_image_for_removal *)
Reasons == {"duplicate"}

InitDb ==
    /\ db = EmptyDb
    /\ fs = [p \in Paths |-> NoFile]
    /\ dest = NoDir
    /\ run = Idle
    /\ det = NoDetect
    /\ grp = NoGroup
    /\ calls = NoCalls
    /\ scan = NoScan

CallStoreImageMetadata(p, m) ==
    /\ db.imageSeq < MaxId
    /\ db' = StoreImageMetadata(db, p, m)
    /\ UNCHANGED <<fs, dest, run, det, grp, calls, scan>>

CallMarkImageForRemoval(id, reason) ==
    /\ db' = MarkImageForRemoval(db, id, reason)
    /\ UNCHANGED <<fs, dest, run, det, grp, calls, scan>>

CallUnmarkImageForRemoval(id) ==
    /\ db' = UnmarkImageForRemoval(db, id)
    /\ UNCHANGED <<fs, dest, run, det, grp, calls, scan>>

CallMarkImageProtected(p) ==
    /\ db' = MarkImageProtected(db, p)
    /\ UNCHANGED <<fs, dest, run, det, grp, calls, scan>>

(* Steps 3 and 4 of detect_mode on the catalog as it is: find_duplicates   *)
(* and process_duplicate_groups_for_removal.                               *)
DetectorMarking(T) ==
    /\ db.groupSeq < MaxGroups
    /\ LET duplicate_groups == FindGroups(db, T)
           d2 == StoreDuplicateGroups(db, duplicate_groups,
                                      NumWrites(duplicate_groups))
           group_dicts == [k \in 1 .. Len(duplicate_groups) |->
                              ToDict(duplicate_groups[k])]
       IN  /\ duplicate_groups # <<>>
           /\ db' = ProcessDuplicateGroupsForRemoval(d2, group_dicts)
    /\ UNCHANGED <<fs, dest, run, det, grp, calls, scan>>

NextDb ==
    \/ \E p \in Paths, m \in MetasDb : CallStoreImageMetadata(p, m)
    \/ \E id \in 1 .. MaxId, reason \in Reasons : CallMarkImageForRemoval(id, reason)
    \/ \E id \in 1 .. MaxId : CallUnmarkImageForRemoval(id)
    \/ \E p \in Paths : CallMarkImageProtected(p)
    \/ \E T \in Thresholds : DetectorMarking(T)

SpecDb == InitDb /\ [][NextDb]_vars

(* C1: in every catalog state no image row is both protected and marked    *)
(* for removal.                                                            *)
C1_NeverProtectedAndMarked ==
    \A r \in db.images : ~(r.is_protected /\ r.marked_for_removal)

(* C1 witness: the detector has recorded a protected row as a non-keeper   *)
(* of a group, which it then tried to mark, and another row is marked.     *)
C1_Witness ==
    \E r, q \in db.images :
        /\ r.is_protected /\ ~r.marked_for_removal
        /\ \E x \in db.group_images : x.image_id = r.id /\ ~x.is_keeper
        /\ q.marked_for_removal

---------------------------------------------------------------------------
(* select_keeper on a DuplicateGroup built with add_image, as the tests    *)
(* of src/tests/test_duplicate_detector.py do.                             *)

(* The image dictionaries given to add_image *)
ImageInfos ==
    {[file_path |-> p, width |-> wh[1], height |-> wh[2], file_size |-> sz] :
        p \in Paths, wh \in {<<1, 1>>, <<1, 2>>, <<2, 1>>}, sz \in {1, 2}}

(* The lists of images of a group: two to MaxGroupLen images of distinct   *)
(* paths, in any order.                                                    *)
ImageLists ==
    UNION {{l \in [1 .. n -> ImageInfos] :
               \A i, j \in 1 .. n : i # j => l[i].file_path # l[j].file_path} :
           n \in 2 .. MaxGroupLen}

InitKeeper ==
    /\ db = EmptyDb
    /\ fs = [p \in Paths |-> NoFile]
    /\ dest = NoDir
    /\ run = Idle
    /\ det = NoDetect
    /\ grp \in {[images |-> l, keeper |-> None] : l \in ImageLists}
    /\ calls = NoCalls
    /\ scan = NoScan

(* group.select_keeper() *)
CallSelectKeeper ==
    /\ grp.keeper = None
    /\ grp' = [grp EXCEPT !.keeper = SelectKeeper(grp.images)]
    /\ UNCHANGED <<db, fs, dest, run, det, calls, scan>>

NextKeeper == CallSelectKeeper

SpecKeeper == InitKeeper /\ [][NextKeeper]_vars

(* a is preferred to b: more pixels, then more bytes, then the shorter     *)
(* basename, then the smaller path.                                        *)
Preferred(a, b) ==
    LET pa == a.width * a.height
        pb == b.width * b.height
    IN  \/ pa > pb
        \/ pa = pb /\ a.file_size > b.file_size
        \/ pa = pb /\ a.file_size = b.file_size
              /\ NameLen(a.file_path) < NameLen(b.file_path)
        \/ pa = pb /\ a.file_size = b.file_size
              /\ NameLen(a.file_path) = NameLen(b.file_path)
              /\ a.file_path < b.file_path

(* The lists with the elements of l in another order *)
Reorderings(l) ==
    {[i \in 1 .. Len(l) |-> l[f[i]]] :
        f \in {g \in [1 .. Len(l) -> 1 .. Len(l)] :
                  \A i, j \in 1 .. Len(l) : i # j => g[i] # g[j]}}

(* C10: the keeper select_keeper returns is a member of the group, is      *)
(* preferred to every other member, and is the same for every order of     *)
(* the members.                                                            *)
C10_KeeperIsLeast ==
    grp.keeper # None =>
        /\ grp.keeper \in SeqToSet(grp.images)
        /\ \A m \in SeqToSet(grp.images) :
               m # grp.keeper => Preferred(grp.keeper, m)
        /\ \A l \in Reorderings(grp.images) : SelectKeeper(l) = grp.keeper

(* C10 witness: a keeper chosen among three images of the same pixel       *)
(* count and size by the length of its basename, and which was not added   *)
(* first.                                                                  *)
C10_Witness ==
    /\ grp.keeper # None
    /\ Len(grp.images) = 3
    /\ grp.keeper # grp.images[1]
    /\ \A m \in SeqToSet(grp.images) :
           /\ m.width * m.height = grp.keeper.width * grp.keeper.height
           /\ m.file_size = grp.keeper.file_size
    /\ \E m \in SeqToSet(grp.images) : m.file_path < grp.keeper.file_path

---------------------------------------------------------------------------
(* One detect run, then remove runs into a destination directory that may  *)
(* already hold files.                                                     *)

(* The destination before the first remove: missing; holding a file with   *)
(* the name ab.jpg; holding ab.jpg, the name ab_<t>.jpg that the first     *)
(* conflict would choose, and a file named .write_test.                    *)
DestInits ==
    {NoDir,
     Dir({Old(PlainName(2))}),
     Dir({Old(PlainName(2)), Old(StampedName(2, 1)), Old(WriteTest)})}

InitRemove ==
    /\ db = EmptyDb
    /\ fs \in Trees
    /\ dest \in DestInits
    /\ run = Idle
    /\ det = NoDetect
    /\ grp = NoGroup
    /\ calls = NoCalls
    /\ scan = NoScan

(* The detect run that fills the empty catalog *)
FirstDetect(T) == db.imageSeq = 0 /\ DetectMode(T, 0)

NextRemove ==
    \/ \E T \in Thresholds : FirstDetect(T)
    \/ \E dry_run, move_to \in BOOLEAN, confirm \in ConfirmsAll :
           RemoveMode(dry_run, move_to, confirm)
    \/ \E t \in Clock, outcome \in Outcomes, db_ok \in BOOLEAN :
           RemoveItem(t, outcome, db_ok)

SpecRemove == InitRemove /\ [][NextRemove]_vars

(* C7, as claimed: an item of a remove in move mode leaves every file the  *)
(* destination already holds as it is, and a file that leaves the tree     *)
(* lands on a name the destination did not hold.                           *)
C7_NeverOverwrites ==
    [][(/\ run.active /\ run.move_to_dir /\ ~run.dry_run
        /\ \E t \in Clock, outcome \in Outcomes, db_ok \in BOOLEAN :
               RemoveItem(t, outcome, db_ok))
        => /\ dest.files \subseteq dest'.files
           /\ LET p == Head(run.queue).file_path
              IN  fs[p].exists /\ ~fs'[p].exists
                      => \E x \in dest'.files :
                             x.content = p /\ x.name \notin Names(dest)]_vars

---------------------------------------------------------------------------
(* One detect run, then protect and remove runs in any order.              *)

NextActuator ==
    \/ \E T \in Thresholds : FirstDetect(T)
    \/ \E p \in Paths : ProtectMode(p)
    \/ \E dry_run, move_to \in BOOLEAN, confirm \in Confirms :
           RemoveMode(dry_run, move_to, confirm)
    \/ \E t \in Clock, outcome \in Outcomes, db_ok \in BOOLEAN :
           RemoveItem(t, outcome, db_ok)

SpecActuator == Init /\ [][NextActuator]_vars

---------------------------------------------------------------------------
(* One detect run on trees whose images share timestamps, content hashes   *)
(* and perceptual hashes in every combination.                             *)

(* Images of one size: one with the EXIF timestamp 1 and content hash 1,   *)
(* and three without timestamp, with content hash 1, 2 and 3; the last     *)
(* has a perceptual hash 6 bits from that of the others.                   *)
MetasFind ==
    {Meta(1, 1, 1, 1, 1, Hex({})),
     Meta(1, 1, 1, 1, NULL, Hex({})),
     Meta(1, 2, 1, 1, NULL, Hex({})),
     Meta(1, 3, 1, 1, NULL, Hex(1 .. 6))}

(* The trees of NumFindPaths images *)
TreesFind == [1 .. NumFindPaths -> {File(m) : m \in MetasFind}]

(* --similarity-threshold: the default, and one that makes the two         *)
(* perceptual hashes similar                                               *)
ThresholdsFind == {DefaultThreshold, DefaultThreshold + 1}

InitFind ==
    /\ db = EmptyDb
    /\ fs \in TreesFind
    /\ dest = NoDir
    /\ run = Idle
    /\ det = NoDetect
    /\ grp = NoGroup
    /\ calls = NoCalls
    /\ scan = NoScan

NextFind == \E T \in ThresholdsFind : FirstDetect(T)

SpecFind == InitFind /\ [][NextFind]_vars

(* The paths of the images of a group *)
GroupPaths(g) == {img.file_path : img \in SeqToSet(g.images)}

(* C8: in the groups one run of find_duplicates returns, no image is in    *)
(* two groups, nor twice in one group.                                     *)
C8_AtMostOneGroup ==
    det.ran =>
        /\ \A i, j \in 1 .. Len(det.groups) :
               i # j => GroupPaths(det.groups[i]) \cap GroupPaths(det.groups[j]) = {}
        /\ \A i \in 1 .. Len(det.groups) :
               Cardinality(GroupPaths(det.groups[i])) = Len(det.groups[i].images)

(* C8 witness: a run has returned a timestamp group, a hash group and a    *)
(* perceptual group, and an image of the timestamp group has the content   *)
(* hash and the perceptual hash of an image of the perceptual group.       *)
C8_Witness ==
    /\ det.ran
    /\ Len(det.groups) = 3
    /\ det.groups[1].type = "timestamp"
    /\ det.groups[2].type = "hash"
    /\ det.groups[3].type = "perceptual"
    /\ \E r, q \in db.images :
           /\ r.file_path \in GroupPaths(det.groups[1])
           /\ q.file_path \in GroupPaths(det.groups[3])
           /\ r.file_hash = q.file_hash
           /\ r.perceptual_hash = q.perceptual_hash

---------------------------------------------------------------------------
(* Detect runs during which the catalog may raise an error on one of the   *)
(* writes of _store_duplicate_groups.                                      *)

(* The writes of one run: a group row and a membership row per image *)
MaxWrites == 2 * NumPaths

InitPersist ==
    /\ db = EmptyDb
    /\ fs \in Trees
    /\ dest = NoDir
    /\ run = Idle
    /\ det = NoDetect
    /\ grp = NoGroup
    /\ calls = NoCalls
    /\ scan = NoScan

DetectWithError(T, fail) ==
    db.imageSeq <= (MaxDetect - 1) * NumPaths /\ DetectMode(T, fail)

NextPersist ==
    \/ \E T \in Thresholds, fail \in 0 .. MaxWrites : DetectWithError(T, fail)
    \/ \E p \in Paths : ExternalDelete(p)

SpecPersist == InitPersist /\ [][NextPersist]_vars

---------------------------------------------------------------------------
(* Properties *)

(* Readings of the catalog used by the properties below *)
HasRow(d, p) == \E r \in d.images : r.file_path = p
Protected(d, p) == \E r \in d.images : r.file_path = p /\ r.is_protected
Marked(d, p) == \E r \in d.images : r.file_path = p /\ r.marked_for_removal
RemovalPaths(d) ==
    {GetImagesForRemoval(d)[k].file_path : k \in 1 .. Len(GetImagesForRemoval(d))}

(* A step of the actuator, of detect and of protect *)
ItemStep ==
    \E t \in Clock, outcome \in Outcomes, db_ok \in BOOLEAN :
        RemoveItem(t, outcome, db_ok)
DetectStep == \E T \in Thresholds : DetectMode(T, 0)

(* The members of the groups of the last detect run that are not the       *)
(* keeper of their group, and the keepers.                                 *)
NonKeepers(groups) ==
    UNION {{img.file_path : img \in SeqToSet(GetDuplicates(groups[k]))} :
              k \in 1 .. Len(groups)}
Keepers(groups) ==
    {SelectKeeper(groups[k].images).file_path : k \in 1 .. Len(groups)}

(* C2, as claimed: once a row is protected (mark_image_protected has       *)
(* returned true for its path), the row of that path is protected in       *)
(* every later catalog state.                                              *)
C2_ProtectionSticky ==
    [][\A p \in Paths : Protected(db, p) => Protected(db', p)]_vars

(* C3, as claimed: when a detect run finds a protected path as a           *)
(* non-keeper of one of its groups, the path is not marked for removal     *)
(* after the run and get_images_for_removal() does not return it.          *)
C3_ProtectionWins ==
    [][DetectStep =>
        \A p \in Paths :
            Protected(db, p) /\ p \in NonKeepers(det'.groups)
                => ~Marked(db', p) /\ p \notin RemovalPaths(db')]_vars

(* C4: a step of the actuator takes a file away from the tree only if the  *)
(* row of its path is marked for removal and not protected; the files of   *)
(* protected rows and of unmarked rows (keepers) stay.                     *)
C4_OnlyMarkedRemoved ==
    [][ItemStep =>
        \A p \in Paths :
            fs[p].exists /\ ~fs'[p].exists
                => \E r \in db.images :
                       /\ r.file_path = p
                       /\ r.marked_for_removal
                       /\ ~r.is_protected]_vars

(* C4 witness: a remove run has taken the file of a non-keeper away while  *)
(* the file of a keeper and the file of a protected non-keeper are still   *)
(* there.                                                                  *)
C4_Witness ==
    /\ det.ran
    /\ run.processed_count > 0
    /\ \E p, r \in NonKeepers(det.groups), q \in Keepers(det.groups) :
           /\ ~fs[p].exists /\ ~Marked(db, p)
           /\ fs[q].exists /\ HasRow(db, q)
           /\ fs[r].exists /\ Protected(db, r)

(* C5: a dry-run remove, with or without --move-to, changes no file of     *)
(* the tree, does not create or change the destination, and changes no     *)
(* row of the catalog.                                                     *)
C5_DryRunFrame ==
    [][(\/ \E move_to \in BOOLEAN, confirm \in Confirms :
              RemoveMode(TRUE, move_to, confirm)
        \/ run.dry_run /\ ItemStep)
            => fs' = fs /\ dest' = dest /\ db' = db]_vars

(* C5 witness: a dry run in move mode has processed an item whose file is  *)
(* missing; the mark is still set and there is no destination directory.   *)
C5_Witness ==
    /\ run.active /\ run.dry_run /\ run.move_to_dir
    /\ run.processed_count > 0
    /\ ~dest.exists
    /\ \E p \in Paths :
           /\ ~fs[p].exists /\ Marked(db, p)
           /\ \A k \in 1 .. Len(run.queue) : run.queue[k].file_path # p

(* C6, as claimed: after each item of a remove that is not a dry run,      *)
(* either the file is gone and the mark is cleared, or the file is there   *)
(* and the mark is set.                                                    *)
C6_Reconciled ==
    [][~run.dry_run /\ ItemStep =>
        LET p == Head(run.queue).file_path
        IN  \/ ~fs'[p].exists /\ ~Marked(db', p)
            \/ fs'[p].exists /\ Marked(db', p)]_vars

(* C6, amended: after each item of a remove that is not a dry run, a file  *)
(* still in place has its mark still set, and a file that is gone has its  *)
(* mark cleared unless the catalog update failed.                          *)
C6_ReconciledUnlessDbFails ==
    [][\A t \in Clock, outcome \in Outcomes, db_ok \in BOOLEAN :
        ~run.dry_run /\ RemoveItem(t, outcome, db_ok) =>
            LET p == Head(run.queue).file_path
            IN  \/ fs'[p].exists /\ Marked(db', p)
                \/ ~fs'[p].exists /\ (db_ok => ~Marked(db', p))]_vars

(* C6 witness: a remove run has taken a file away and cleared its mark,    *)
(* and has left another file, whose removal failed, in place and marked.   *)
C6_Witness ==
    /\ det.ran
    /\ ~run.active /\ run.processed_count > 0
    /\ \E p, q \in NonKeepers(det.groups) :
           /\ ~fs[p].exists /\ HasRow(db, p) /\ ~Marked(db, p)
           /\ fs[q].exists /\ Marked(db, q)

(* The group_images rows of a group *)
GroupImagesOf(d, gid) == {x \in d.group_images : x.group_id = gid}

(* C9, as claimed: after every detect run, every duplicate_groups row has  *)
(* at least two group_images rows and exactly one of them has is_keeper.   *)
C9_GroupsWellFormed ==
    \A g \in db.duplicate_groups :
        /\ Cardinality(GroupImagesOf(db, g.id)) >= 2
        /\ Cardinality({x \in GroupImagesOf(db, g.id) : x.is_keeper}) = 1

---------------------------------------------------------------------------
(* Properties of the catalog operations *)

(* C11: in every catalog state, a row has a removal_reason exactly when it *)
(* is marked for removal.                                                  *)
C11_ReasonIffMarked ==
    \A r \in db.images : (r.removal_reason # NoReason) <=> r.marked_for_removal

(* C11 witness: a row marked by the detector with its reason, beside a     *)
(* row that was marked and is now unmarked, without reason.                *)
C11_Witness ==
    \E r, q \in db.images :
        /\ r.marked_for_removal /\ r.removal_reason = "hash_duplicate"
        /\ ~q.marked_for_removal /\ q.removal_reason = NoReason
        /\ ~q.is_protected
        /\ \E x \in db.group_images : x.image_id = q.id /\ ~x.is_keeper

---------------------------------------------------------------------------
(* The catalog interface with the last two calls recorded: the operation,  *)
(* its arguments, the catalog it was applied to, the value it returned     *)
(* and, for protect mode, the exit status.                                 *)

(* store_image_metadata calls made on one catalog *)
MaxStores == 2

(* metadata arguments of store_image_metadata: two different images *)
MetasApi == {Meta(1, 1, 1, 1, NULL, Hex({})), Meta(2, 2, 1, 1, NULL, Hex({}))}

(* reason arguments of mark_image_for_removal: the default, and the one    *)
(* process_duplicate_groups_for_removal passes for a hash group            *)
ReasonsApi == {"duplicate", "hash_duplicate"}

(* A call on the catalog: op names the method; path, id and reason are its *)
(* arguments (0, NoReason where it has none); before is the catalog it     *)
(* was applied to; ret is the boolean it returned (TRUE for the methods    *)
(* that return nothing); status is the exit status of the mode (0 outside  *)
(* protect mode).                                                          *)
Call(op, path, id, reason, meta, before, ret, status) ==
    [op |-> op, path |-> path, id |-> id, reason |-> reason, meta |-> meta,
     before |-> before, ret |-> ret, status |-> status]

(* The metadata field of a call that stores nothing *)
NoMeta == Meta(0, 0, 0, 0, NULL, HNull)

(* The paths the calls name: /d1/ab.jpg and /d1/b.jpg *)
PathsApi == {1, 2}

(* The calls after one more: the one before it, and it *)
Record(c) == IF calls = NoCalls THEN <<c>> ELSE <<calls[Len(calls)], c>>

InitApi ==
    /\ db = EmptyDb
    /\ fs = [p \in Paths |-> File(Meta(1, 1, 1, 1, NULL, Hex({})))]
    /\ dest = NoDir
    /\ run = Idle
    /\ det = NoDetect
    /\ grp = NoGroup
    /\ calls = NoCalls
    /\ scan = NoScan

ApiStoreImageMetadata(p, m) ==
    /\ db.imageSeq < MaxStores
    /\ db' = StoreImageMetadata(db, p, m)
    /\ calls' = Record(Call("store_image_metadata", p, 0, NoReason, m, db, TRUE, 0))
    /\ UNCHANGED <<fs, dest, run, det, grp, scan>>

ApiMarkImageForRemoval(id, reason) ==
    /\ db' = MarkImageForRemoval(db, id, reason)
    /\ calls' = Record(Call("mark_image_for_removal", 0, id, reason, NoMeta, db,
                       TRUE, 0))
    /\ UNCHANGED <<fs, dest, run, det, grp, scan>>

ApiUnmarkImageForRemoval(id) ==
    /\ db' = UnmarkImageForRemoval(db, id)
    /\ calls' = Record(Call("unmark_image_for_removal", 0, id, NoReason, NoMeta, db,
                       TRUE, 0))
    /\ UNCHANGED <<fs, dest, run, det, grp, scan>>

ApiMarkImageProtected(p) ==
    /\ db' = MarkImageProtected(db, p)
    /\ calls' = Record(Call("mark_image_protected", p, 0, NoReason, NoMeta, db,
                       MarkImageProtectedResult(db, p), 0))
    /\ UNCHANGED <<fs, dest, run, det, grp, scan>>

(* protect_mode: returns 0 if mark_image_protected returned True, else 1 *)
ApiProtectMode(p) ==
    /\ fs[p].exists
    /\ LET success == MarkImageProtectedResult(db, p)
       IN  /\ db' = MarkImageProtected(db, p)
           /\ calls' = Record(Call("protect_mode", p, 0, NoReason, NoMeta, db,
                              success, IF success THEN 0 ELSE 1))
    /\ UNCHANGED <<fs, dest, run, det, grp, scan>>

NextApi ==
    \/ \E p \in PathsApi, m \in MetasApi : ApiStoreImageMetadata(p, m)
    \/ \E id \in 1 .. MaxStores, reason \in ReasonsApi :
           ApiMarkImageForRemoval(id, reason)
    \/ \E id \in 1 .. MaxStores : ApiUnmarkImageForRemoval(id)
    \/ \E p \in PathsApi : ApiMarkImageProtected(p)
    \/ \E p \in PathsApi : ApiProtectMode(p)

SpecApi == InitApi /\ [][NextApi]_vars

(* The last call, the one before it, and the row of an id or of a path in  *)
(* a catalog                                                               *)
LastCall == calls[Len(calls)]
PrevCall == calls[1]
Called(op) == calls # NoCalls /\ LastCall.op = op
CalledBefore(op) == Len(calls) = 2 /\ PrevCall.op = op
RowsOfId(d, id) == {r \in d.images : r.id = id}
RowsOfPath(d, p) == {r \in d.images : r.file_path = p}

(* C12: mark_image_for_removal(id, reason) on a protected row changes      *)
(* nothing: the catalog after the call is the catalog before it, that row  *)
(* and every other row included, and the call returns normally.            *)
C12_MarkProtectedNoOp ==
    (/\ Called("mark_image_for_removal")
     /\ \E r \in RowsOfId(LastCall.before, LastCall.id) : r.is_protected)
        => db = LastCall.before /\ LastCall.ret

(* C12 witness: the call was made on a protected row, beside another row   *)
(* that is marked.                                                         *)
C12_Witness ==
    /\ Called("mark_image_for_removal")
    /\ \E r \in RowsOfId(LastCall.before, LastCall.id) : r.is_protected
    /\ \E q \in db.images : q.id # LastCall.id /\ q.marked_for_removal

(* C13: mark_image_protected(path) for a path that has no row returns      *)
(* false and changes no row, and protect mode then exits with status 1;    *)
(* for a path that has a row it returns true and the row is protected,     *)
(* unmarked and without reason after the call, and no catalog state holds  *)
(* a row that is protected and still marked or still carrying a reason.    *)
C13_ProtectResult ==
    /\ (Called("mark_image_protected") \/ Called("protect_mode")) =>
           IF RowsOfPath(LastCall.before, LastCall.path) = {}
           THEN /\ ~LastCall.ret
                /\ db = LastCall.before
                /\ Called("protect_mode") => LastCall.status = 1
           ELSE /\ LastCall.ret
                /\ Called("protect_mode") => LastCall.status = 0
                /\ db.images =
                       {IF r.file_path = LastCall.path
                        THEN [r EXCEPT !.is_protected = TRUE,
                                       !.marked_for_removal = FALSE,
                                       !.removal_reason = NoReason]
                        ELSE r : r \in LastCall.before.images}
    /\ \A r \in db.images :
           r.is_protected => ~r.marked_for_removal /\ r.removal_reason = NoReason

(* C13 witness: mark_image_protected has returned true for a marked row,  *)
(* and protect mode has then failed on a path without a row.               *)
C13_Witness ==
    /\ CalledBefore("mark_image_protected")
    /\ PrevCall.ret
    /\ \E r \in RowsOfPath(PrevCall.before, PrevCall.path) : r.marked_for_removal
    /\ Called("protect_mode")
    /\ LastCall.status = 1
    /\ RowsOfPath(LastCall.before, LastCall.path) = {}

(* A call of mark_image_protected, directly or by protect mode *)
IsProtect(c) == c.op \in {"mark_image_protected", "protect_mode"}

(* A row that is protected, unmarked and without reason *)
ProtectedClean(r) ==
    r.is_protected /\ ~r.marked_for_removal /\ r.removal_reason = NoReason

(* C14: mark_image_protected is idempotent, and on one row the sequences   *)
(* protect; protect, protect; mark and mark; protect all end with the row  *)
(* protected, unmarked and without reason.                                 *)
C14_ProtectAbsorbs ==
    Len(calls) = 2 =>
        /\ (/\ IsProtect(PrevCall) /\ IsProtect(LastCall)
            /\ PrevCall.path = LastCall.path) =>
               /\ db = LastCall.before
               /\ \A r \in RowsOfPath(db, LastCall.path) : ProtectedClean(r)
        /\ (/\ IsProtect(PrevCall) /\ LastCall.op = "mark_image_for_removal") =>
               \A r \in RowsOfPath(db, PrevCall.path) :
                   r.id = LastCall.id => ProtectedClean(r)
        /\ (/\ PrevCall.op = "mark_image_for_removal" /\ IsProtect(LastCall)) =>
               \A r \in RowsOfPath(db, LastCall.path) :
                   r.id = PrevCall.id => ProtectedClean(r)

(* C14 witness: a marked row was protected and then marked again with its  *)
(* id; it is protected.                                                    *)
C14_Witness ==
    /\ CalledBefore("mark_image_protected")
    /\ Called("mark_image_for_removal")
    /\ \E r \in RowsOfPath(PrevCall.before, PrevCall.path) :
           /\ r.marked_for_removal
           /\ r.id = LastCall.id
           /\ \E q \in db.images : q.id = r.id /\ q.is_protected

(* mark_image_for_removal(id, r) followed by unmark_image_for_removal(id)  *)
MarkThenUnmark ==
    /\ CalledBefore("mark_image_for_removal")
    /\ Called("unmark_image_for_removal")
    /\ PrevCall.id = LastCall.id

(* C15 as stated: after mark_image_for_removal(id, r) followed by          *)
(* unmark_image_for_removal(id), the row of id is the row before the two   *)
(* calls, whatever its state was (unmarked, marked, protected).            *)
C15_MarkUnmarkRestores ==
    MarkThenUnmark =>
        RowsOfId(db, LastCall.id) = RowsOfId(PrevCall.before, LastCall.id)

(* C15 amended: after mark_image_for_removal(id, r) followed by            *)
(* unmark_image_for_removal(id), a row that was unmarked or protected is   *)
(* the row before the two calls; a row that was already marked is that     *)
(* row unmarked and without reason.                                        *)
C15_MarkUnmarkRestoresUnmarked ==
    MarkThenUnmark =>
        RowsOfId(db, LastCall.id) =
            {IF r.marked_for_removal
             THEN [r EXCEPT !.marked_for_removal = FALSE,
                            !.removal_reason = NoReason]
             ELSE r : r \in RowsOfId(PrevCall.before, LastCall.id)}

(* C15 witness: the two calls were made on an unmarked, unprotected row,   *)
(* which the first call marked.                                            *)
C15_Witness ==
    /\ MarkThenUnmark
    /\ \E r \in RowsOfId(PrevCall.before, LastCall.id) :
           ~r.marked_for_removal /\ ~r.is_protected
    /\ \E r \in RowsOfId(LastCall.before, LastCall.id) : r.marked_for_removal

(* The metadata columns of a row *)
MetaOf(r) ==
    Meta(r.file_size, r.file_hash, r.width, r.height, r.timestamp,
         r.perceptual_hash)

(* C16: store_image_metadata for a path that has a row, with the metadata  *)
(* the row holds, leaves the row as it was: id, marked_for_removal,        *)
(* is_protected and removal_reason keep their values.                      *)
C16_RestoreKeepsRow ==
    (/\ Called("store_image_metadata")
     /\ \E r \in RowsOfPath(LastCall.before, LastCall.path) :
            MetaOf(r) = LastCall.meta)
        => RowsOfPath(db, LastCall.path) =
               RowsOfPath(LastCall.before, LastCall.path)

---------------------------------------------------------------------------
(* Detect runs one after the other on one tree and one catalog, with       *)
(* nothing else in between.                                                *)

(* The trees: at each path no file, or an image of MetasFind *)
TreesDetect == [Paths -> {NoFile} \cup {File(m) : m \in MetasFind}]

InitDetect ==
    /\ db = EmptyDb
    /\ fs \in TreesDetect
    /\ dest = NoDir
    /\ run = Idle
    /\ det = NoDetect
    /\ grp = NoGroup
    /\ calls = NoCalls
    /\ scan = NoScan

(* At most MaxDetect runs of the tree *)
NextDetect ==
    \E T \in ThresholdsFind :
        /\ db.imageSeq < MaxDetect * Len(ScanDirectory(fs))
        /\ DetectMode(T, 0)

SpecDetect == InitDetect /\ [][NextDetect]_vars

(* What a run returned, up to group ids: kind, members and keeper of each  *)
(* group, by path.                                                         *)
GroupViews(groups) ==
    {[type |-> groups[k].type,
      members |-> GroupPaths(groups[k]),
      keeper |-> SelectKeeper(groups[k].images).file_path] :
         k \in 1 .. Len(groups)}

(* The marked paths of a catalog with their reasons *)
MarkedWithReason(d) ==
    {<<r.file_path, r.removal_reason>> : r \in {x \in d.images : x.marked_for_removal}}

(* C17: a detect run that follows a detect run of the same tree with the   *)
(* same threshold returns the same groups (kind, members, keeper) and      *)
(* leaves the same paths marked with the same reasons.                     *)
C17_DetectConverges ==
    [][\A T \in ThresholdsFind :
          (det.ran /\ det.threshold = T /\ DetectMode(T, 0)) =>
              /\ GroupViews(det'.groups) = GroupViews(det.groups)
              /\ Len(det'.groups) = Len(det.groups)
              /\ MarkedWithReason(db') = MarkedWithReason(db)]_vars

(* C17 witness: two runs have stored every file of the tree; each         *)
(* returned one group, and its two non-keepers are marked.                 *)
C17_Witness ==
    /\ det.ran
    /\ db.imageSeq = 2 * Len(ScanDirectory(fs))
    /\ Len(det.groups) = 1
    /\ db.groupSeq = 2
    /\ Cardinality(MarkedWithReason(db)) = 2

---------------------------------------------------------------------------
(* Properties of remove mode and of the detector's marking *)

(* The confirmations that let a remove proceed: --yes, and the answers y   *)
(* and Y at a terminal.                                                    *)
Confirmed == {"yes", "y", "Y"}

---------------------------------------------------------------------------
(* Detect runs with either threshold on a tree whose files may be deleted  *)
(* between the runs: the rows of deleted files stay in the catalog.        *)

(* Three images of different content and decreasing size; the perceptual   *)
(* hashes of the first two differ in 6 bits, of the last two in 2 bits,    *)
(* of the first and the last in 8 bits.                                    *)
MetasMarks ==
    {Meta(3, 1, 1, 1, NULL, Hex({})),
     Meta(2, 2, 1, 1, NULL, Hex(1 .. 6)),
     Meta(1, 3, 1, 1, NULL, Hex(1 .. 8))}

TreesMarks == [Paths -> {File(m) : m \in MetasMarks}]

InitMarks ==
    /\ db = EmptyDb
    /\ fs \in TreesMarks
    /\ dest = NoDir
    /\ run = Idle
    /\ det = NoDetect
    /\ grp = NoGroup
    /\ calls = NoCalls
    /\ scan = NoScan

NextMarks ==
    \/ \E T \in ThresholdsFind :
           db.imageSeq <= (MaxDetect - 1) * NumPaths /\ DetectMode(T, 0)
    \/ \E p \in Paths : ExternalDelete(p)

SpecMarks == InitMarks /\ [][NextMarks]_vars

(* The kind of the group of the run's groups that holds path p *)
KindOf(groups, p) ==
    LET k == CHOOSE i \in 1 .. Len(groups) : p \in GroupPaths(groups[i])
    IN  groups[k].type

(* C19: after a detect run, every member of a group of that run that is    *)
(* not the keeper and not protected is marked with the reason              *)
(* '<kind>_duplicate' of its group, and no keeper of a group of that run   *)
(* is marked.                                                              *)
C19_RunMarksNonKeepers ==
    [][\A T \in ThresholdsFind :
          DetectMode(T, 0) =>
              /\ \A p \in NonKeepers(det'.groups) :
                     ~Protected(db', p) =>
                         \E r \in db'.images :
                             /\ r.file_path = p
                             /\ r.marked_for_removal
                             /\ r.removal_reason =
                                    ReasonOf(KindOf(det'.groups, p))
              /\ \A p \in Keepers(det'.groups) : ~Marked(db', p)]_vars

---------------------------------------------------------------------------
(* Remove runs, not dry runs, on a catalog whose marked rows may have lost *)
(* their file: one detect run of a tree of copies of one image, files      *)
(* deleted outside the tool, then confirmed removes.                       *)

TreesMissing == [Paths -> {File(m) : m \in MetasDb}]

InitMissing ==
    /\ db = EmptyDb
    /\ fs \in TreesMissing
    /\ dest = NoDir
    /\ run = Idle
    /\ det = NoDetect
    /\ grp = NoGroup
    /\ calls = NoCalls
    /\ scan = NoScan

NextMissing ==
    \/ \E T \in Thresholds : FirstDetect(T)
    \/ \E p \in Paths : det.ran /\ ExternalDelete(p)
    \/ \E move_to \in BOOLEAN : RemoveMode(FALSE, move_to, "yes")
    \/ \E t \in Clock, outcome \in Outcomes, db_ok \in BOOLEAN :
           RemoveItem(t, outcome, db_ok)

SpecMissing == InitMissing /\ [][NextMissing]_vars

(* The run is at a marked row whose file does not exist *)
AtMissingFile ==
    /\ run.active
    /\ ~run.dry_run
    /\ ~fs[Head(run.queue).file_path].exists

(* The item is counted as a success and the batch goes on with the next    *)
(* item, or ends.                                                          *)
CountedAndContinues ==
    /\ run'.processed_count = run.processed_count + 1
    /\ fs' = fs
    /\ dest' = dest
    /\ IF Tail(run.queue) = <<>> THEN ~run'.active
       ELSE run'.active /\ run'.queue = Tail(run.queue)

(* C20 as stated: when the actuator, not in a dry run, reaches a marked    *)
(* row whose file no longer exists, it counts the item as a success and    *)
(* the row's mark and reason are cleared; the batch goes on.               *)
C20_MissingFileCleared ==
    [][AtMissingFile /\ ItemStep =>
          /\ CountedAndContinues
          /\ db' = UnmarkImageForRemoval(db, Head(run.queue).id)]_vars

(* C20 amended: when the actuator, not in a dry run, reaches a marked row  *)
(* whose file no longer exists, it counts the item as a success and the    *)
(* batch goes on; the row's mark and reason are cleared if the catalog     *)
(* update succeeds, and the catalog is left as it was if it fails.         *)
C20_MissingFileClearedUnlessDbFails ==
    [][AtMissingFile =>
          \A t \in Clock, outcome \in Outcomes, db_ok \in BOOLEAN :
              RemoveItem(t, outcome, db_ok) =>
                  /\ CountedAndContinues
                  /\ db' = IF db_ok
                           THEN UnmarkImageForRemoval(db, Head(run.queue).id)
                           ELSE db]_vars

(* C20 witness: a run in move mode has counted one item and moved nothing: *)
(* the item's file was missing; its row is unmarked, and the run goes on   *)
(* with the next item.                                                     *)
C20_Witness ==
    /\ run.active /\ ~run.dry_run /\ run.move_to_dir
    /\ run.processed_count = 1
    /\ dest.files = {}
    /\ \E p \in NonKeepers(det.groups) :
           /\ ~fs[p].exists
           /\ HasRow(db, p) /\ ~Marked(db, p)
           /\ \A k \in 1 .. Len(run.queue) : run.queue[k].file_path # p

---------------------------------------------------------------------------
(* The scanner: src/src/image_scanner.py. In this part fs is a directory   *)
(* tree: the root directory 0 and the directories of ScanDirs, each with   *)
(* its parent, and files 1..NumScanFiles, each in one directory. A path    *)
(* is [alias, file]: the file, named through the root directory as it was  *)
(* given (alias, when that is a symbolic link to the root) or by its       *)
(* canonical name; Path order is the order of the file numbers.            *)

(* files of the scanned tree *)
NumScanFiles == 2

ScanFiles == 1 .. NumScanFiles

(* root_directory, and the directories below it *)
RootDir == 0
ScanDirs == {1, 2}

(* SKIP_DIRECTORIES *)
SkipDirectories == {"@eaDir"}

(* SUPPORTED_EXTENSIONS, abridged *)
SupportedExtensions == {".jpg"}

(* str.lower() on the directory names of the model *)
NameLower(name) ==
    CASE name = "@eaDir" -> "@eadir"
      [] name = "@EADIR" -> "@eadir"
      [] OTHER -> name

(* The directories: a plain one, a symbolic link to a directory, and one   *)
(* named as the skip set in another case.                                  *)
DirEntries ==
    {[name |-> "photos", symlink |-> FALSE],
     [name |-> "photos", symlink |-> TRUE],
     [name |-> "@EADIR", symlink |-> FALSE]}

(* The files: an image, a symbolic link to an image, a text file *)
FileEntries ==
    {[suffix |-> ".jpg", symlink |-> FALSE],
     [suffix |-> ".jpg", symlink |-> TRUE],
     [suffix |-> ".txt", symlink |-> FALSE]}

(* A directory is below the root or below a directory of lower number *)
ScanParents == {par \in [ScanDirs -> {RootDir} \cup ScanDirs] : \A d \in ScanDirs : par[d] < d}

ScanTrees ==
    [parent : ScanParents,
     dirs : [ScanDirs -> DirEntries],
     fdir : [ScanFiles -> {RootDir} \cup ScanDirs],
     files : [ScanFiles -> FileEntries],
     alias : BOOLEAN]

(* _should_skip_directory *)
ShouldSkipDirectory(tree, d) ==
    \E skip_dir \in SkipDirectories :
        NameLower(tree.dirs[d].name) = NameLower(skip_dir)

(* _is_image_file: the extension test *)
IsImageFile(tree, f) == tree.files[f].suffix \in SupportedExtensions

(* An item of iterdir(), and item.resolve() *)
ItemPath(tree, f) == [alias |-> tree.alias, file |-> f]
Resolve(path) == [path EXCEPT !.alias = FALSE]

(* Path.__lt__ *)
PathLess(a, b) == a.file < b.file \/ (a.file = b.file /\ ~a.alias /\ b.alias)

RECURSIVE Ascending(_)
(* The numbers of a set in ascending order: the listing order of iterdir() *)
Ascending(S) ==
    IF S = {} THEN <<>>
    ELSE LET x == CHOOSE y \in S : \A z \in S : y <= z
         IN  <<x>> \o Ascending(S \ {x})

(* The subdirectories of d that are scanned: item.is_dir() and not         *)
(* item.is_symlink(), and not skipped.                                     *)
SubDirectories(tree, d) ==
    {c \in ScanDirs : /\ tree.parent[c] = d
                      /\ ~tree.dirs[c].symlink
                      /\ ~ShouldSkipDirectory(tree, c)}

(* _scan_files_in_directory *)
ScanFilesInDirectory(tree, d) ==
    LET items == Ascending({f \in ScanFiles : /\ tree.fdir[f] = d
                                               /\ ~tree.files[f].symlink
                                               /\ IsImageFile(tree, f)})
    IN  [k \in 1 .. Len(items) |-> Resolve(ItemPath(tree, items[k]))]

RECURSIVE ScanDirectoryWorker(_, _)
RECURSIVE ScanSubDirectories(_, _)
(* _scan_directory_worker: the files of d, and those below it *)
ScanDirectoryWorker(tree, d) ==
    ScanFilesInDirectory(tree, d)
        \o ScanSubDirectories(tree, Ascending(SubDirectories(tree, d)))
ScanSubDirectories(tree, ds) ==
    IF ds = <<>> THEN <<>>
    ELSE ScanDirectoryWorker(tree, Head(ds)) \o ScanSubDirectories(tree, Tail(ds))

RECURSIVE DiscoverDirectories(_, _, _)
(* scan_directory: while directories_to_scan *)
DiscoverDirectories(tree, directories_to_scan, all_directories) ==
    IF directories_to_scan = <<>> THEN all_directories
    ELSE LET current_dir == Head(directories_to_scan)
         IN  DiscoverDirectories(
                 tree,
                 Tail(directories_to_scan)
                     \o Ascending(SubDirectories(tree, current_dir)),
                 Append(all_directories, current_dir))

RECURSIVE SortPaths(_)
(* list.sort() of a set of paths *)
SortPaths(S) ==
    IF S = {} THEN <<>>
    ELSE LET x == CHOOSE y \in S : \A z \in S \ {y} : PathLess(y, z)
         IN  <<x>> \o SortPaths(S \ {x})

(* A variant of the last step of scan_directory that returns the list as   *)
(* collected                                                               *)
UniqueSorted_AsCollected(all_image_files) == all_image_files

(* unique_files = list(set(all_image_files)); unique_files.sort() *)
UniqueSorted(all_image_files) == SortPaths(SeqToSet(all_image_files))

(* --max-workers: one thread, and the default *)
MaxWorkers == {1, 4}

InitScan ==
    /\ db = EmptyDb
    /\ fs \in ScanTrees
    /\ dest = NoDir
    /\ run = Idle
    /\ det = NoDetect
    /\ grp = NoGroup
    /\ calls = NoCalls
    /\ scan = NoScan

(* scan_directory up to the collection of the results: in one thread the   *)
(* recursive worker runs; otherwise one task per directory is submitted.   *)
ScanStart(max_workers) ==
    /\ scan.phase = "idle"
    /\ LET all_directories == DiscoverDirectories(fs, <<RootDir>>, <<>>)
       IN  scan' = IF Len(all_directories) = 1 \/ max_workers = 1
                   THEN [phase |-> "collected", max_workers |-> max_workers,
                         pending |-> {},
                         all_image_files |-> ScanDirectoryWorker(fs, RootDir),
                         result |-> <<>>]
                   ELSE [phase |-> "running", max_workers |-> max_workers,
                         pending |-> SeqToSet(all_directories),
                         all_image_files |-> <<>>,
                         result |-> <<>>]
    /\ UNCHANGED <<db, fs, dest, run, det, grp, calls>>

(* as_completed yields the task of directory d: its files are appended *)
FutureCompletes(d) ==
    /\ scan.phase = "running"
    /\ d \in scan.pending
    /\ scan' = [scan EXCEPT
                   !.pending = @ \ {d},
                   !.all_image_files = @ \o ScanFilesInDirectory(fs, d),
                   !.phase = IF scan.pending = {d} THEN "collected" ELSE @]
    /\ UNCHANGED <<db, fs, dest, run, det, grp, calls>>

(* scan_directory returns *)
ScanReturn ==
    /\ scan.phase = "collected"
    /\ scan' = [scan EXCEPT !.phase = "done",
                            !.result = UniqueSorted(scan.all_image_files)]
    /\ UNCHANGED <<db, fs, dest, run, det, grp, calls>>

NextScan ==
    \/ \E max_workers \in MaxWorkers : ScanStart(max_workers)
    \/ \E d \in {RootDir} \cup ScanDirs : FutureCompletes(d)
    \/ ScanReturn

SpecScan == InitScan /\ [][NextScan]_vars

RECURSIVE BelowSkipped(_, _)
(* d, or a directory above it below the root, has a name of the skip set *)
BelowSkipped(tree, d) ==
    d # RootDir /\ (ShouldSkipDirectory(tree, d) \/ BelowSkipped(tree, tree.parent[d]))

RECURSIVE BelowLink(_, _)
(* d, or a directory above it below the root, is a symbolic link *)
BelowLink(tree, d) ==
    d # RootDir /\ (tree.dirs[d].symlink \/ BelowLink(tree, tree.parent[d]))

(* The candidate image files of a tree *)
Candidates(tree) ==
    {f \in ScanFiles : /\ IsImageFile(tree, f)
                       /\ ~tree.files[f].symlink
                       /\ ~BelowSkipped(tree, tree.fdir[f])
                       /\ ~BelowLink(tree, tree.fdir[f])}

---------------------------------------------------------------------------
(* Properties of the modes on the files *)

(* C22: a detect run leaves every file of the tree and the destination as  *)
(* they were; a file of the tree or of the destination changes only in a   *)
(* step of a remove run that is not a dry run.                             *)
C22_DetectWritesNoFile ==
    [][/\ \A T \in Thresholds : FirstDetect(T) => fs' = fs /\ dest' = dest
       /\ (fs' # fs \/ dest'.files # dest.files) =>
              run.active /\ ~run.dry_run]_vars

(* C22 witness: a detect run has marked rows, and every file of the tree   *)
(* is in place with the metadata the catalog holds for it.                 *)
C22_Witness ==
    /\ det.ran
    /\ ~run.active
    /\ RemovalPaths(db) # {}
    /\ \A p \in Paths :
           /\ fs[p].exists
           /\ \E r \in db.images :
                  r.file_path = p /\ r.file_hash = fs[p].meta.file_hash

---------------------------------------------------------------------------
(* Detect runs and confirmed removes on one catalog, with files deleted    *)
(* outside the tool: the rows over the life of a catalog.                  *)

NextRows ==
    \/ \E T \in Thresholds :
           db.imageSeq <= (MaxDetect - 1) * NumPaths /\ DetectMode(T, 0)
    \/ \E p \in Paths : det.ran /\ ExternalDelete(p)
    \/ RemoveMode(FALSE, FALSE, "yes")
    \/ \E t \in Clock, outcome \in {"ok", "os_error"} :
           RemoveItem(t, outcome, TRUE)

SpecRows == InitMissing /\ [][NextRows]_vars

(* No two rows of a catalog have the same path *)
UniquePaths(d) ==
    \A r, q \in d.images : r.file_path = q.file_path => r = q

---------------------------------------------------------------------------
(* Properties of the perceptual clustering *)

(* The groups of a kind among the groups a run returned *)
GroupsOfKind(groups, type) ==
    {groups[k] : k \in {i \in 1 .. Len(groups) : groups[i].type = type}}

(* The rows that reach the perceptual stage of the last run with a usable  *)
(* hash: those in no timestamp or hash group.                              *)
PerceptualPool ==
    {r \in db.images :
        /\ ParseHash(r) # None
        /\ \A g \in GroupsOfKind(det.groups, "timestamp")
                       \cup GroupsOfKind(det.groups, "hash") :
               r.file_path \notin GroupPaths(g)}

(* The distance of the hashes of two rows of the pool *)
RowDistance(r, q) == Hamming(ParseHash(r).bits, ParseHash(q).bits)

(* C24: when the pool of the perceptual stage is three images A, B, C in   *)
(* path order with d(A,B) <= T, d(B,C) <= T and d(A,C) > T, the run        *)
(* returns one perceptual group with all three.                            *)
C24_AnyMemberLinkage ==
    det.ran =>
        \A a, b, c \in PerceptualPool :
            (/\ PerceptualPool = {a, b, c}
             /\ a.file_path < b.file_path /\ b.file_path < c.file_path
             /\ RowDistance(a, b) <= det.threshold
             /\ RowDistance(b, c) <= det.threshold
             /\ RowDistance(a, c) > det.threshold)
                => \E g \in GroupsOfKind(det.groups, "perceptual") :
                       {a.file_path, b.file_path, c.file_path} \subseteq GroupPaths(g)

(* The row of a member of a group *)
RowOf(p) == CHOOSE r \in db.images : r.file_path = p

(* C25: every member of a perceptual group a run with threshold T returned *)
(* is within Hamming distance T of at least one other member of the group. *)
C25_MemberHasNeighbour ==
    det.ran =>
        \A g \in GroupsOfKind(det.groups, "perceptual") :
            \A p \in GroupPaths(g) :
                \E q \in GroupPaths(g) \ {p} :
                    RowDistance(RowOf(p), RowOf(q)) <= det.threshold

(* A run has returned a perceptual group of three of which two members     *)
(* are further than T from each other.                                     *)
C25_Witness ==
    /\ det.ran
    /\ \E g \in GroupsOfKind(det.groups, "perceptual") :
           /\ Cardinality(GroupPaths(g)) = 3
           /\ \E p, q \in GroupPaths(g) :
                  RowDistance(RowOf(p), RowOf(q)) > det.threshold

---------------------------------------------------------------------------
(* Precedence of the stages of find_duplicates *)

(* The paths of the groups of a kind the last run returned *)
PathsOfKind(type) == UNION {GroupPaths(g) : g \in GroupsOfKind(det.groups, type)}

(* The paths of the rows with a timestamp *)
PathsWithTimestamp(t) == {r.file_path : r \in {q \in db.images : q.timestamp = t}}

(* C26: after a run, the images sharing a non-null timestamp, when two or  *)
(* more, are the members of exactly one timestamp group; no member of a    *)
(* timestamp group is in a hash or perceptual group, and no member of a    *)
(* hash group is in a perceptual group.                                    *)
C26_StagePrecedence ==
    det.ran =>
        /\ \A r \in db.images :
               (r.timestamp # NULL /\ Cardinality(PathsWithTimestamp(r.timestamp)) >= 2)
                   => Cardinality({g \in GroupsOfKind(det.groups, "timestamp") :
                                      GroupPaths(g) \cap PathsWithTimestamp(r.timestamp) # {}}) = 1
                      /\ \E g \in GroupsOfKind(det.groups, "timestamp") :
                             GroupPaths(g) = PathsWithTimestamp(r.timestamp)
        /\ PathsOfKind("timestamp") \cap (PathsOfKind("hash") \cup PathsOfKind("perceptual")) = {}
        /\ PathsOfKind("hash") \cap PathsOfKind("perceptual") = {}

(* A run has returned groups of the three kinds; an image of the timestamp *)
(* group has the content hash of an image of the hash group, and an image  *)
(* of the hash group has the perceptual hash of an image of the perceptual *)
(* group.                                                                  *)
C26_Witness ==
    /\ det.ran
    /\ \E r, q, s \in db.images :
           /\ r.file_path \in PathsOfKind("timestamp")
           /\ q.file_path \in PathsOfKind("hash")
           /\ s.file_path \in PathsOfKind("perceptual")
           /\ r.file_hash = q.file_hash
           /\ q.perceptual_hash = s.perceptual_hash

---------------------------------------------------------------------------
(* One detect run with the smallest and the largest threshold main accepts *)

(* Images of different content without timestamp: two with the same        *)
(* perceptual hash, one a bit away, one HashBits bits away, and one        *)
(* without a usable hash.                                                  *)
MetasThreshold ==
    {Meta(1, 1, 1, 1, NULL, Hex({})),
     Meta(1, 2, 1, 1, NULL, Hex({})),
     Meta(1, 3, 1, 1, NULL, Hex({1})),
     Meta(1, 4, 1, 1, NULL, Hex(1 .. HashBits)),
     Meta(1, 5, 1, 1, NULL, HNull)}

TreesThreshold == [Paths -> {File(m) : m \in MetasThreshold}]

(* The bounds of the range check of --similarity-threshold *)
ThresholdsThreshold == {0, HashBits}

InitThreshold ==
    /\ db = EmptyDb
    /\ fs \in TreesThreshold
    /\ dest = NoDir
    /\ run = Idle
    /\ det = NoDetect
    /\ grp = NoGroup
    /\ calls = NoCalls
    /\ scan = NoScan

NextThreshold == \E T \in ThresholdsThreshold : FirstDetect(T)

SpecThreshold == InitThreshold /\ [][NextThreshold]_vars

(* Two paths are members of one perceptual group of the last run *)
SamePerceptualGroup(p, q) ==
    \E g \in GroupsOfKind(det.groups, "perceptual") : {p, q} \subseteq GroupPaths(g)

(* C27: with threshold 0 two images of the perceptual stage are in one     *)
(* perceptual group exactly when their hashes are equal; with threshold    *)
(* HashBits the images of the perceptual stage with a usable hash, when    *)
(* two or more, are the members of the only perceptual group.              *)
C27_ExtremeThresholds ==
    det.ran =>
        /\ det.threshold = 0 =>
               \A r, q \in PerceptualPool :
                   r # q => (SamePerceptualGroup(r.file_path, q.file_path)
                                <=> ParseHash(r).bits = ParseHash(q).bits)
        /\ (det.threshold = HashBits /\ Cardinality(PerceptualPool) >= 2) =>
               GroupsOfKind(det.groups, "perceptual")
                   = {g \in GroupsOfKind(det.groups, "perceptual") :
                         GroupPaths(g) = {r.file_path : r \in PerceptualPool}}
               /\ Cardinality(GroupsOfKind(det.groups, "perceptual")) = 1

(* A run with threshold HashBits has grouped two images whose hashes       *)
(* differ in every bit.                                                    *)
C27_Witness ==
    /\ det.ran
    /\ det.threshold = HashBits
    /\ \E r, q \in PerceptualPool :
           /\ RowDistance(r, q) = HashBits
           /\ SamePerceptualGroup(r.file_path, q.file_path)

---------------------------------------------------------------------------
(* One detect run, on trees with several groups, during which the catalog  *)
(* may raise an error on one of the writes of _store_duplicate_groups.     *)

(* The writes of one run: a group row and a membership row per image *)
MaxWritesFind == 2 * NumFindPaths

(* Images of one size: one with the EXIF timestamp 1, and two without     *)
(* timestamp and of different content; all with the same perceptual hash.  *)
MetasPersistAll ==
    {Meta(1, 1, 1, 1, 1, Hex({})),
     Meta(1, 1, 1, 1, NULL, Hex({})),
     Meta(1, 2, 1, 1, NULL, Hex({}))}

TreesPersistAll == [1 .. NumFindPaths -> {File(m) : m \in MetasPersistAll}]

InitPersistAll ==
    /\ db = EmptyDb
    /\ fs \in TreesPersistAll
    /\ dest = NoDir
    /\ run = Idle
    /\ det = NoDetect
    /\ grp = NoGroup
    /\ calls = NoCalls
    /\ scan = NoScan

FirstDetectWithError(T, fail) == db.imageSeq = 0 /\ DetectMode(T, fail)

NextPersistAll ==
    \E T \in Thresholds, fail \in 0 .. MaxWritesFind : FirstDetectWithError(T, fail)

SpecPersistAll == InitPersistAll /\ [][NextPersistAll]_vars

RECURSIVE FailingGroup(_, _, _)
(* The index, from k on, of the group during whose writes the fail-th      *)
(* write of _store_duplicate_groups is made                                *)
FailingGroup(groups, k, fail) ==
    IF fail <= 1 + Len(groups[k].images) THEN k
    ELSE FailingGroup(groups, k + 1, fail - (1 + Len(groups[k].images)))

(* The ids of the rows of the images of a group *)
GroupImageIds(d, g) == {ImageIdByPath(d, p) : p \in GroupPaths(g)}

(* A group is in the catalog with its members and its keeper *)
Persisted(d, g) ==
    \E row \in d.duplicate_groups :
        /\ row.group_type = g.type
        /\ {x.image_id : x \in GroupImagesOf(d, row.id)} = GroupImageIds(d, g)
        /\ {x.image_id : x \in {y \in GroupImagesOf(d, row.id) : y.is_keeper}}
               = {ImageIdByPath(d, SelectKeeper(g.images).file_path)}

(* C28, as claimed: when a catalog write raises while one group is being   *)
(* persisted, every other group the run found, those after the failing     *)
(* one included, is in the catalog with its members and its keeper.        *)
C28_ErrorIsolated ==
    [][\A T \in Thresholds, fail \in 1 .. MaxWritesFind :
        FirstDetectWithError(T, fail) =>
            \A k \in 1 .. Len(det'.groups) :
                k # FailingGroup(det'.groups, 1, fail)
                    => Persisted(db', det'.groups[k])]_vars

---------------------------------------------------------------------------
(* Detect runs the user may interrupt while _store_duplicate_groups writes *)

(* detect_mode interrupted by Ctrl+C before the at-th catalog write of     *)
(* _store_duplicate_groups: the writes before it are committed, the        *)
(* KeyboardInterrupt passes "except Exception" of _store_duplicate_groups  *)
(* and of detect_mode, and main returns 1.                                 *)
DetectInterrupted(T, at) ==
    /\ ~run.active
    /\ db.imageSeq = 0
    /\ LET image_files == ScanDirectory(fs)
           d1 == StoreAll(db, fs, image_files)
           duplicate_groups == FindGroups(d1, T)
       IN  /\ image_files # <<>>
           /\ at <= NumWrites(duplicate_groups)
           /\ db' = StoreDuplicateGroups(d1, duplicate_groups, at - 1)
    /\ calls' = Record(Call("detect_mode", 0, 0, NoReason, NoMeta, db, FALSE, 1))
    /\ UNCHANGED <<fs, dest, run, det, grp, scan>>

NextInterrupt ==
    \/ \E T \in Thresholds : FirstDetect(T)
    \/ \E T \in Thresholds, at \in 1 .. MaxWritesFind : DetectInterrupted(T, at)

SpecInterrupt == InitPersistAll /\ [][NextInterrupt]_vars

(* The groups a detect run on the present tree finds *)
GroupsFound(T) == FindGroups(StoreAll(db, fs, ScanDirectory(fs)), T)

(* C29, as claimed: after a detect run interrupted during the persistence  *)
(* of the groups, every duplicate_groups row of the catalog has the        *)
(* members and the keeper of a group the run found, and the exit status    *)
(* is not 0.                                                               *)
C29_NoPartialGroup ==
    [][\A T \in Thresholds, at \in 1 .. MaxWritesFind :
        DetectInterrupted(T, at) =>
            /\ calls'[Len(calls')].status # 0
            /\ \A row \in db'.duplicate_groups :
                   \E k \in 1 .. Len(GroupsFound(T)) :
                       LET g == GroupsFound(T)[k]
                       IN  /\ row.group_type = g.type
                           /\ {x.image_id : x \in GroupImagesOf(db', row.id)}
                                  = GroupImageIds(db', g)
                           /\ \E x \in GroupImagesOf(db', row.id) : x.is_keeper]_vars

---------------------------------------------------------------------------
(* Remove runs, confirmed with --yes, whose items the file system may      *)
(* refuse one by one.                                                      *)

NextItems ==
    \/ \E T \in Thresholds : FirstDetect(T)
    \/ \E dry_run, move_to \in BOOLEAN : RemoveMode(dry_run, move_to, "yes")
    \/ \E t \in Clock, outcome \in Outcomes, db_ok \in BOOLEAN :
           RemoveItem(t, outcome, db_ok)

SpecItems == Init /\ [][NextItems]_vars

(* The file system refuses the item at the head of the queue: the path is  *)
(* not a regular file or not writable, or the run is not a dry run and the *)
(* deletion or the move raises, or the destination refuses the probe.      *)
ItemFails(outcome) ==
    /\ fs[Head(run.queue).file_path].exists
    /\ \/ outcome \in {"not_file", "no_permission"}
       \/ ~run.dry_run /\ outcome = "os_error"
       \/ ~run.dry_run /\ run.move_to_dir /\ outcome = "dest_denied"

(* C30: an item the file system refuses leaves the tree and the catalog    *)
(* as they were and is not counted; any other item is counted; in both     *)
(* cases the run goes on with the rest of the removal set.                 *)
C30_ItemFailureIsolated ==
    [][\A t \in Clock, outcome \in Outcomes, db_ok \in BOOLEAN :
        RemoveItem(t, outcome, db_ok) =>
            /\ ItemFails(outcome) =>
                   /\ fs' = fs
                   /\ db' = db
                   /\ run'.processed_count = run.processed_count
            /\ ~ItemFails(outcome) => run'.processed_count = run.processed_count + 1
            /\ run'.queue = Tail(run.queue)
            /\ run'.active <=> Tail(run.queue) # <<>>]_vars

(* A run that is not a dry run has ended with one item counted: the first  *)
(* item of the removal set was refused, its file is in place and marked;   *)
(* a later item was deleted and unmarked.                                  *)
C30_Witness ==
    /\ det.ran
    /\ ~run.active /\ run.processed_count = 1
    /\ \E p, q \in NonKeepers(det.groups) :
           /\ p < q
           /\ fs[p].exists /\ Marked(db, p)
           /\ ~fs[q].exists /\ HasRow(db, q) /\ ~Marked(db, q)

---------------------------------------------------------------------------
(* The catalog operations called while the store may report an error       *)
(* (sqlite3.Error, for instance "database is locked").                     *)

(* The query operations, and the operations that write *)
QueryOps ==
    {"get_images_by_timestamp", "get_images_by_hash",
     "get_images_with_perceptual_hashes", "get_images_for_removal"}
MutationOps ==
    {"store_image_metadata", "mark_image_for_removal", "mark_image_protected",
     "unmark_image_for_removal", "create_duplicate_group", "add_image_to_group"}

(* What a query returns when the store answers *)
QueryResult(op, d) ==
    CASE op = "get_images_by_timestamp" -> GetImagesByTimestamp(d)
      [] op = "get_images_by_hash" -> GetImagesByHash(d)
      [] op = "get_images_with_perceptual_hashes" -> GetImagesWithPerceptualHashes(d)
      [] OTHER -> GetImagesForRemoval(d)

(* A query call. store_ok: the store answers; otherwise it reports an      *)
(* error, which "except sqlite3.Error" logs before it returns {} or [].    *)
QueryCall(op, store_ok) ==
    /\ ~run.active
    /\ calls' = <<[op |-> op, before |-> db, store_ok |-> store_ok,
                   raised |-> FALSE,
                   result |-> IF store_ok THEN QueryResult(op, db) ELSE <<>>]>>
    /\ UNCHANGED <<db, fs, dest, run, det, grp, scan>>

(* A writing call on which the store reports an error: get_cursor rolls    *)
(* back, "except sqlite3.Error" logs and raises.                           *)
MutationFails(op) ==
    /\ ~run.active
    /\ calls' = <<[op |-> op, before |-> db, store_ok |-> FALSE,
                   raised |-> TRUE, result |-> <<>>]>>
    /\ UNCHANGED <<db, fs, dest, run, det, grp, scan>>

NextQuery ==
    \/ \E T \in Thresholds : FirstDetect(T)
    \/ \E op \in QueryOps, store_ok \in BOOLEAN : QueryCall(op, store_ok)
    \/ \E op \in MutationOps : MutationFails(op)

SpecQuery == Init /\ [][NextQuery]_vars

(* C31, as claimed: a catalog operation on which the store reports an      *)
(* error leaves the catalog as it was and raises the error to its caller,  *)
(* the query operations included.                                          *)
C31_StoreErrorSurfaces ==
    (calls # NoCalls /\ ~calls[1].store_ok)
        => db = calls[1].before /\ calls[1].raised

---------------------------------------------------------------------------
(* Opening a catalog file: Database.__init__ and _create_tables. In this   *)
(* part db is the file's images table: whether it exists, which of the     *)
(* removal columns it has, the paths of its rows, how often the file was   *)
(* opened and whether the last open raised.                                *)

MaxOpens == 2   \* opens of one catalog file

(* The columns of the removal workflow, in the order of the ALTER TABLE    *)
(* statements                                                              *)
RemovalColumns == <<"marked_for_removal", "is_protected", "removal_reason">>
AllRemovalColumns == {RemovalColumns[k] : k \in 1 .. Len(RemovalColumns)}

(* A catalog file of an earlier version, and a path without a file *)
CatalogFile(columns, paths) ==
    [table |-> TRUE, columns |-> columns, paths |-> paths, opens |-> 0, raised |-> FALSE]
NoCatalogFile ==
    [table |-> FALSE, columns |-> {}, paths |-> {}, opens |-> 0, raised |-> FALSE]

RECURSIVE AlterTable(_, _)
(* The three ALTER TABLE ... ADD COLUMN statements inside the one try of   *)
(* _create_tables: the first that names a column the table has raises      *)
(* "duplicate column name", which the handler ignores; the statements      *)
(* after it are not executed.                                              *)
AlterTable(columns, statements) ==
    IF statements = <<>> THEN columns
    ELSE IF Head(statements) \in columns THEN columns
    ELSE AlterTable(columns \cup {Head(statements)}, Tail(statements))

(* A variant in which each statement has a handler of its own *)
CreateTables_EachAlter(d) ==
    [d EXCEPT !.table = TRUE, !.columns = AllRemovalColumns]

(* _create_tables: CREATE TABLE IF NOT EXISTS with every column, then the  *)
(* ALTER TABLE statements.                                                 *)
CreateTables(d) ==
    [d EXCEPT !.table = TRUE,
              !.columns = AlterTable(IF d.table THEN d.columns ELSE AllRemovalColumns,
                                     RemovalColumns)]

InitOpen ==
    /\ db \in {CatalogFile(c, ps) : c \in SUBSET AllRemovalColumns, ps \in SUBSET Paths}
                 \cup {NoCatalogFile}
    /\ fs \in Trees
    /\ dest = NoDir
    /\ run = Idle
    /\ det = NoDetect
    /\ grp = NoGroup
    /\ calls = NoCalls
    /\ scan = NoScan

(* Database(db_path). store_ok: the store reports no error other than      *)
(* "duplicate column"; otherwise _create_tables logs and raises.           *)
OpenCatalog(store_ok) ==
    /\ db.opens < MaxOpens
    /\ db' = IF store_ok
             THEN [CreateTables(db) EXCEPT !.opens = @ + 1, !.raised = FALSE]
             ELSE [db EXCEPT !.opens = @ + 1, !.raised = TRUE]
    /\ UNCHANGED <<fs, dest, run, det, grp, calls, scan>>

NextOpen == \E store_ok \in BOOLEAN : OpenCatalog(store_ok)

SpecOpen == InitOpen /\ [][NextOpen]_vars

(* C32, as claimed: opening a catalog whose images table has any subset of *)
(* the three removal columns leaves the table with all three, and opening  *)
(* it again changes nothing.                                               *)
C32_OpenCompletesColumns ==
    [][OpenCatalog(TRUE) =>
        /\ db'.columns = AllRemovalColumns
        /\ db.opens > 0 /\ ~db.raised => db'.columns = db.columns]_vars

---------------------------------------------------------------------------
(* One detect run on trees whose images carry two timestamps and two       *)
(* further content hashes.                                                 *)

(* Images of one size without usable perceptual hash: two kinds with an    *)
(* EXIF timestamp, the later one with the smaller content hash, and two    *)
(* kinds without timestamp.                                                *)
MetasOrder ==
    {Meta(1, 1, 1, 1, 2, HNull),
     Meta(1, 2, 1, 1, 1, HNull),
     Meta(1, 4, 1, 1, NULL, HNull),
     Meta(1, 3, 1, 1, NULL, HNull)}

TreesOrder == [1 .. NumFindPaths -> {File(m) : m \in MetasOrder}]

InitOrder ==
    /\ db = EmptyDb
    /\ fs \in TreesOrder
    /\ dest = NoDir
    /\ run = Idle
    /\ det = NoDetect
    /\ grp = NoGroup
    /\ calls = NoCalls
    /\ scan = NoScan

NextOrder == \E T \in Thresholds : FirstDetect(T)

SpecOrder == InitOrder /\ [][NextOrder]_vars

(* The key of a group of a keyed stage, and the first path, in path order, *)
(* of a row with the key of the group                                      *)
KeyOf(g) == IF g.type = "timestamp" THEN g.images[1].timestamp ELSE g.images[1].file_hash
FirstPathOfKey(g) ==
    LET with == {r.file_path : r \in {q \in db.images :
                    IF g.type = "timestamp" THEN q.timestamp = KeyOf(g)
                    ELSE q.file_hash = KeyOf(g)}}
    IN  CHOOSE p \in with : \A q \in with : p <= q

(* The pairs of groups of one keyed stage, in the order of emission *)
KeyedPairs ==
    {ij \in (1 .. Len(det.groups)) \X (1 .. Len(det.groups)) :
        /\ ij[1] < ij[2]
        /\ det.groups[ij[1]].type = det.groups[ij[2]].type
        /\ det.groups[ij[1]].type \in {"timestamp", "hash"}}

(* The members of every group are in file_path order *)
MembersInPathOrder ==
    \A k \in 1 .. Len(det.groups) :
        \A i, j \in 1 .. Len(det.groups[k].images) :
            i < j => det.groups[k].images[i].file_path < det.groups[k].images[j].file_path

(* C33, as claimed: the groups of a keyed stage are emitted in the order   *)
(* in which their keys first appear in file_path order, with members in    *)
(* file_path order.                                                        *)
C33_FirstAppearanceOrder ==
    det.ran =>
        /\ \A ij \in KeyedPairs :
               FirstPathOfKey(det.groups[ij[1]]) < FirstPathOfKey(det.groups[ij[2]])
        /\ MembersInPathOrder

(* C33, amended: the groups of a keyed stage are emitted in ascending      *)
(* order of their key (timestamp or content hash), with members in         *)
(* file_path order.                                                        *)
C33_KeyOrder ==
    det.ran =>
        /\ \A ij \in KeyedPairs : KeyOf(det.groups[ij[1]]) < KeyOf(det.groups[ij[2]])
        /\ MembersInPathOrder

(* A run has emitted two groups of one keyed stage of which the second     *)
(* has the key that appears first in file_path order.                      *)
C33_Witness ==
    /\ det.ran
    /\ \E ij \in KeyedPairs :
           /\ det.groups[ij[1]].type = "timestamp"
           /\ FirstPathOfKey(det.groups[ij[2]]) < FirstPathOfKey(det.groups[ij[1]])
           /\ Len(det.groups[ij[2]].images) = 3

---------------------------------------------------------------------------
(* A FileManager used directly: dry_run is given to the constructor        *)
(* (self.dry_run) and, independently, to remove_files_from_database.       *)

(* FileManager(dry_run = self_dry_run, move_to_dir = ...) and the start of *)
(* remove_files_from_database(database, dry_run), which reads the removal  *)
(* set; the items are then processed one by one (RemoveItem).              *)
RemoveFilesFromDatabase(self_dry_run, move_to, dry_run) ==
    /\ ~run.active
    /\ LET images_to_remove == GetImagesForRemoval(db)
       IN  run' = IF images_to_remove # <<>>
                  THEN [active |-> TRUE, queue |-> images_to_remove,
                        self_dry_run |-> self_dry_run, dry_run |-> dry_run,
                        move_to_dir |-> move_to, processed_count |-> 0]
                  ELSE Idle
    /\ UNCHANGED <<db, fs, dest, det, grp, calls, scan>>

NextDryRun ==
    \/ \E T \in Thresholds : FirstDetect(T)
    \/ \E self_dry_run, move_to, dry_run \in BOOLEAN :
           RemoveFilesFromDatabase(self_dry_run, move_to, dry_run)
    \/ \E t \in Clock, outcome \in Outcomes, db_ok \in BOOLEAN :
           RemoveItem(t, outcome, db_ok)

SpecDryRun == InitRemove /\ [][NextDryRun]_vars

(* C34, as claimed: an item processed by a FileManager constructed with    *)
(* dry_run=True changes no file of the tree, does not create or change     *)
(* the destination and changes no row of the catalog, whatever dry_run     *)
(* the call was given.                                                     *)
C34_ConstructorDryRun ==
    [][(run.self_dry_run /\ ItemStep) =>
        fs' = fs /\ dest' = dest /\ db' = db]_vars

---------------------------------------------------------------------------
(* Moves into a destination that already holds the names a conflict tries  *)

(* A destination holding, for both basenames, the plain name, the name     *)
(* with the timestamp of the clock and the names with counters 1 .. n      *)
FullDir(n) ==
    Dir(UNION {{Old(PlainName(b)), Old(StampedName(b, t))}
                   \cup {Old(CountedName(b, t, c)) : c \in 1 .. n} :
               b \in {BaseName(p) : p \in Paths}, t \in Clock})

(* The destinations: counters taken up to MaxAttempts - 2, - 1 and all *)
DestsNames == {FullDir(n) : n \in MaxAttempts - 2 .. MaxAttempts}

InitNames ==
    /\ db = EmptyDb
    /\ fs \in Trees
    /\ dest \in DestsNames
    /\ run = Idle
    /\ det = NoDetect
    /\ grp = NoGroup
    /\ calls = NoCalls
    /\ scan = NoScan

NextNames ==
    \/ \E T \in Thresholds : FirstDetect(T)
    \/ RemoveMode(FALSE, TRUE, "yes")
    \/ \E t \in Clock, outcome \in {"ok", "os_error"} : RemoveItem(t, outcome, TRUE)

SpecNames == InitNames /\ [][NextNames]_vars

(* The names a conflict may use, in the order of the claim: the name with  *)
(* the timestamp, then the names with counters 1 .. MaxAttempts            *)
CandidateName(b, t, k) == IF k = 0 THEN StampedName(b, t) ELSE CountedName(b, t, k)

(* C35, as claimed: a move whose plain name is taken uses the first free   *)
(* name among the timestamp name and the MaxAttempts counter names; only   *)
(* when all are taken is the item aborted, and then the source file, its   *)
(* mark and every destination file are as before.                          *)
C35_FirstFreeName ==
    [][\A t \in Clock :
        (/\ run.active /\ run.move_to_dir /\ ~run.dry_run
         /\ fs[Head(run.queue).file_path].exists
         /\ PlainName(BaseName(Head(run.queue).file_path)) \in Names(dest)
         /\ RemoveItem(t, "ok", TRUE))
        => LET p == Head(run.queue).file_path
               free == {k \in 0 .. MaxAttempts :
                           CandidateName(BaseName(p), t, k) \notin Names(dest)}
           IN  IF free # {}
               THEN LET k == CHOOSE x \in free : \A y \in free : x <= y
                    IN  /\ ~fs'[p].exists
                        /\ [name |-> CandidateName(BaseName(p), t, k), content |-> p]
                               \in dest'.files
               ELSE /\ fs' = fs
                    /\ Marked(db', p)
                    /\ dest'.files = dest.files]_vars

---------------------------------------------------------------------------
(* C36, as claimed: after any sequence of detect runs on one catalog,      *)
(* every group_images row refers to the id of a row of images.             *)
C36_MembershipsRefer ==
    \A x \in db.group_images : \E r \in db.images : r.id = x.image_id

---------------------------------------------------------------------------
(* Two detect runs on one catalog, files deleted outside the tool only     *)
(* between the two, and confirmed removes. The tree is full at the start,  *)
(* so db.imageSeq = NumPaths exactly after the first run.                  *)

NextLastCopy ==
    \/ \E T \in Thresholds : db.imageSeq <= NumPaths /\ DetectMode(T, 0)
    \/ \E p \in Paths : db.imageSeq = NumPaths /\ ExternalDelete(p)
    \/ RemoveMode(FALSE, FALSE, "yes")
    \/ \E t \in Clock, outcome \in {"ok", "os_error"} : RemoveItem(t, outcome, TRUE)

SpecLastCopy == InitMissing /\ [][NextLastCopy]_vars

(* C37, as claimed: after the second detect run and the removes that       *)
(* follow it, every group of the run whose non-keepers are all gone from   *)
(* the tree and unmarked has the file of its keeper in the tree.           *)
C37_KeeperFileStays ==
    (det.ran /\ db.imageSeq > NumPaths) =>
        \A k \in 1 .. Len(det.groups) :
            LET g == det.groups[k]
                duplicates == {img.file_path : img \in SeqToSet(GetDuplicates(g))}
            IN  (/\ duplicates # {}
                 /\ \A q \in duplicates : ~fs[q].exists /\ ~Marked(db, q))
                    => fs[SelectKeeper(g.images).file_path].exists

---------------------------------------------------------------------------
(* _cluster_similar_images on every list of NumClusterPaths images of      *)
(* different content without timestamp, which all reach the perceptual     *)
(* stage.                                                                  *)

NumClusterPaths == 4   \* images of a clustered tree

(* The perceptual hashes: three at distances 2, 4 and 6, and none *)
HashesCluster == {Hex({}), Hex(1 .. 2), Hex(1 .. 6), HNull}

TreesCluster ==
    {[p \in 1 .. NumClusterPaths |-> File(Meta(1, p, 1, 1, NULL, h[p]))] :
        h \in [1 .. NumClusterPaths -> HashesCluster]}

(* Thresholds that join none, one and two of the pairs of distinct hashes *)
ThresholdsCluster == {0, 2, 4}

InitCluster ==
    /\ db = EmptyDb
    /\ fs \in TreesCluster
    /\ dest = NoDir
    /\ run = Idle
    /\ det = NoDetect
    /\ grp = NoGroup
    /\ calls = NoCalls
    /\ scan = NoScan

NextCluster == \E T \in ThresholdsCluster : FirstDetect(T)

SpecCluster == InitCluster /\ [][NextCluster]_vars

(* The input of _cluster_similar_images in the last run, by path *)
ClusterInput == {r.file_path : r \in {q \in db.images : ParseHash(q) # None}}

(* C38: the clusters a run returns are pairwise disjoint subsets of the    *)
(* input without repetition, each of two or more elements; the elements    *)
(* of a cluster are in path order, and so are the first elements of the    *)
(* clusters.                                                               *)
C38_ClustersWellFormed ==
    det.ran =>
        /\ \A k \in 1 .. Len(det.groups) :
               LET images == det.groups[k].images
               IN  /\ det.groups[k].type = "perceptual"
                   /\ Len(images) >= 2
                   /\ GroupPaths(det.groups[k]) \subseteq ClusterInput
                   /\ \A i, j \in 1 .. Len(images) :
                          i < j => images[i].file_path < images[j].file_path
        /\ \A k, l \in 1 .. Len(det.groups) :
               k < l =>
                   /\ GroupPaths(det.groups[k]) \cap GroupPaths(det.groups[l]) = {}
                   /\ det.groups[k].images[1].file_path < det.groups[l].images[1].file_path

(* A run with a threshold above 0 has returned two clusters that           *)
(* interleave in path order.                                               *)
C38_Witness ==
    /\ det.ran
    /\ det.threshold > 0
    /\ Len(det.groups) = 2
    /\ det.groups[2].images[1].file_path < det.groups[1].images[2].file_path

---------------------------------------------------------------------------
(* Confirmed remove runs, one after the other, in which every file         *)
(* operation and every catalog update succeeds.                            *)

NextTwice ==
    \/ \E T \in Thresholds : FirstDetect(T)
    \/ \E p \in Paths : ProtectMode(p)
    \/ \E move_to \in BOOLEAN : RemoveMode(FALSE, move_to, "yes")
    \/ \E t \in Clock : RemoveItem(t, "ok", TRUE)

SpecTwice == Init /\ [][NextTwice]_vars

(* C39: when the last item of such a run is done, get_images_for_removal() *)
(* is empty; a remove run started after a run that processed items finds   *)
(* nothing to do: it changes no file of the tree, no file of the           *)
(* destination and no row, and processes no item.                          *)
C39_SecondRemoveIdle ==
    [][/\ \A t \in Clock :
              (RemoveItem(t, "ok", TRUE) /\ ~run'.active)
                  => GetImagesForRemoval(db') = <<>>
       /\ \A move_to \in BOOLEAN :
              (run.processed_count > 0 /\ RemoveMode(FALSE, move_to, "yes"))
                  => /\ fs' = fs
                     /\ db' = db
                     /\ dest'.files = dest.files
                     /\ run' = Idle]_vars

(* A second remove run has been started after a run that deleted or moved  *)
(* two files and cleared their marks.                                      *)
C39_Witness ==
    /\ det.ran
    /\ run = Idle
    /\ \E p, q \in NonKeepers(det.groups) :
           /\ p # q
           /\ ~fs[p].exists /\ HasRow(db, p) /\ ~Marked(db, p)
           /\ ~fs[q].exists /\ HasRow(db, q) /\ ~Marked(db, q)

====
